---- MODULE Spec2Model ----
(***************************************************************************)
(* Plasma Shield: the SSH bastion (grant store, certificate authority,     *)
(* direct-tcpip channels), the forward proxy and the reverse proxy,        *)
(* modelled from the Go sources.                                           *)
(*                                                                         *)
(* Instants are counted in clock ticks; TicksPerSec ticks make one second  *)
(* (time.Time has sub-second resolution, an SSH certificate has not).      *)
(* Strings that the code only compares are TLA+ strings; strings that the  *)
(* code takes apart (hosts, domain patterns) are sequences of characters.  *)
(* A Go pointer that may be nil is a set with at most one element.         *)
(***************************************************************************)
EXTENDS Integers, Sequences, FiniteSets, TLC

VARIABLES
    now,        \* the clock read by GrantStore.now, CertificateAuthority.now, Logger.now
    grants,     \* GrantStore.grants: map id -> Grant
    counter,    \* GrantStore.counter
    added,      \* history: id -> the arguments and instant of the Add that returned it
    deleted,    \* history: the ids for which Delete returned true
    persisted,  \* the grants file: the grants persist last wrote
    addCount,   \* history: how many times Add was called
    ret,        \* the last call and what it returned
    chans,      \* bastion: each direct-tcpip channel request and how far its handler is
    events,     \* bastion: LogStore.events
    sessionStarts,  \* bastion: Logger.sessionStarts
    appended,   \* history: the events LogStore.Add has appended, in the order of its lock
    adding,     \* bastion: each thread that calls LogStore.Add and how far it is
    tenants,        \* fleet.Manager.tenants: map tenant id -> Tenant
    agentToTenant,  \* fleet.Manager.agentToTenant: map agent id -> tenant id
    ipToAgent,      \* fleet.Manager.ipToAgent: map ip -> the Agent copied at AddAgent
    tokens,         \* ReverseHandler.tokens: map bearer token -> tenant id
    rules,          \* rules.Engine.rules: the RuleSet last loaded
    compiled,       \* rules.Engine.compiled: its rules with their matchers
    defaultAction,  \* rules.Engine.defaultAction
    rulesPath,      \* rules.Engine.rulesPath; "" when no path is recorded
    files,          \* the rules files on disk: path -> what the file holds
    mu,             \* rules.Engine.mu: whether it is write-locked, and its readers
    loading,        \* rules.Engine: each loading thread and how far its load is
    evals,          \* rules.Engine: each evaluating thread and how far it is
    globalMode,     \* mode.Manager.globalMode
    agentModes,     \* mode.Manager.agentModes: map agent id -> mode override
    registryAttached,   \* Handler.registry is not nil
    tunnels,        \* forward proxy: the CONNECT tunnels set up, in order
    apiAgents,      \* api.Store.agents: map agent id -> Agent
    apiRules,       \* api.Store.rules: map rule id -> Rule
    apiLogs,        \* api.Store.logs
    requestsTotal,  \* api.Store.requestsTotal
    blockedTotal,   \* api.Store.blockedTotal
    everKilled      \* history: the agents killed since they were registered

storeVars == <<now, grants, counter, added, deleted, persisted, addCount>>
bastionVars == <<chans, events, sessionStarts, appended, adding>>
fleetVars == <<tenants, agentToTenant, ipToAgent>>
engineVars == <<rules, compiled, defaultAction, rulesPath, files, mu, loading, evals>>
modeVars == <<globalMode, agentModes>>
forwardVars == <<registryAttached, tunnels>>
proxyVars == <<fleetVars, tokens, engineVars, modeVars, forwardVars>>
apiVars == <<apiAgents, apiRules, apiLogs, requestsTotal, blockedTotal, everKilled>>
\* What the grant store and the certificate authority leave alone
storeFrame == <<bastionVars, proxyVars, apiVars>>
\* What the bastion's channel handlers leave alone
bastionFrame == <<storeVars, ret, proxyVars, adding, apiVars>>
\* What the fleet registry and the proxies leave alone
proxyFrame == <<storeVars, bastionVars, apiVars>>
\* What the management API leaves alone
apiFrame == <<grants, counter, added, deleted, persisted, addCount, bastionVars, proxyVars>>
\* What the fleet registry leaves alone
fleetFrame == <<tokens, engineVars, modeVars, forwardVars, proxyFrame>>
\* What the reverse proxy leaves alone, its tokens apart
reverseFrame == <<fleetVars, engineVars, modeVars, forwardVars, proxyFrame>>
\* What the rule engine leaves alone
engineFrame == <<fleetVars, tokens, modeVars, forwardVars, proxyFrame>>
\* What the mode manager leaves alone
modeFrame == <<fleetVars, tokens, engineVars, forwardVars, proxyFrame>>
\* What the forward proxy leaves alone, its tunnels apart
forwardFrame == <<fleetVars, tokens, engineVars, modeVars, registryAttached, proxyFrame>>
vars == <<now, grants, counter, added, deleted, persisted, addCount, ret, chans, events, sessionStarts,
          appended, adding,
          tenants, agentToTenant, ipToAgent, tokens, rules, compiled, defaultAction,
          rulesPath, files, mu, loading, evals,
          globalMode, agentModes, registryAttached, tunnels,
          apiAgents, apiRules, apiLogs, requestsTotal, blockedTotal, everKilled>>

----------------------------------------------------------------------------
(* Bounds and input sets *)

MaxTime == 3
MaxGrants == 2
TicksPerSec == 2

Principals == {"alice", "bob"}
Targets == {"agent-1", "agent-2"}
\* The (principal, target) pairs that Add is called with
GrantRequests == {<<"alice", "agent-1">>, <<"bob", "*">>}
Durations == {0, 2}

NoCall == [op |-> "none"]

\* The rules files, and the threads that load rules and that evaluate
Paths == {"a.yaml", "b.yaml"}
Loaders == {"l1"}
Evaluators == {"e1", "e2"}
Idle == [pc |-> "idle"]
Adders == {"g1", "g2"}

\* The bastion's channel requests, and the SSH connection each arrives on
Channels == {"c1", "c2"}
Conns == {"k1", "k2"}
\* sshConn.User() of each connection
ConnUser == [k \in Conns |-> IF k = "k1" THEN "alice" ELSE "bob"]

\* A channel nobody has requested yet
IdleChannel ==
    [st |-> "idle", type |-> "", conn |-> "", dest |-> "", payloadOK |-> FALSE,
     validated |-> FALSE, grant |-> {}, reason |-> "", accepted |-> FALSE,
     dialled |-> FALSE, session |-> <<>>, logged |-> <<>>, copied |-> {}]

\* NewLogStore(limit) and the sizes of the bastion runs
LogLimit == 3
MaxSessionGrants == 1
MaxSessionTime == 2

----------------------------------------------------------------------------
(* time.Time comparisons *)

After(a, b) == a > b
Before(a, b) == a < b
Unix(t) == t \div TicksPerSec

----------------------------------------------------------------------------
(* GrantStore *)

\* A generateGrantID that leaves the counter out of the id
generateGrantID_NoCounter(t, c) == <<t, 0>>

\* "grant-" + base36(UnixNano) + "-" + base36(counter): the pair, which the
\* string determines and is determined by for the non-negative values here.
generateGrantID(t, c) == <<t, c>>

matchTarget(grantTarget, requestedTarget) ==
    \/ grantTarget = "*"
    \/ grantTarget = requestedTarget

NewGrant(principal, target, createdBy, duration) ==
    [ID        |-> generateGrantID(now, counter + 1),
     Principal |-> principal,
     Target    |-> target,
     ExpiresAt |-> now + duration,
     CreatedBy |-> createdBy,
     CreatedAt |-> now]

\* persist: the grants of the map, written as a JSON list in the order of the
\* map's iteration, which the reader does not depend on
Marshalled(m) == {m[i] : i \in DOMAIN m}

\* load: every grant of the file's list, stored under its own id
load(file) == [id \in {g.ID : g \in file} |-> CHOOSE g \in file : g.ID = id]

\* s.grants[grant.ID] = grant
Put(m, g) == [i \in (DOMAIN m) \cup {g.ID} |-> IF i = g.ID THEN g ELSE m[i]]

Remove(m, ids) == [i \in (DOMAIN m) \ ids |-> m[i]]

\* Get: nil when missing or when now is after ExpiresAt
Get(id) ==
    IF id \notin DOMAIN grants THEN {}
    ELSE IF After(now, grants[id].ExpiresAt) THEN {}
    ELSE {grants[id]}

\* ListActive: the grants with now before ExpiresAt
ListActive == {grants[i] : i \in {j \in DOMAIN grants : Before(now, grants[j].ExpiresAt)}}

\* The grants the loop of ValidateAccess can return: it ranges over the map in
\* an unspecified order and returns the first one that passes both tests.
ValidateAccessMatches(principal, target) ==
    {grants[i] : i \in {j \in DOMAIN grants :
        /\ ~After(now, grants[j].ExpiresAt)
        /\ grants[j].Principal = principal
        /\ matchTarget(grants[j].Target, target)}}

\* The possible return values of ValidateAccess, each a set of at most one grant
ValidateAccess(principal, target) ==
    IF ValidateAccessMatches(principal, target) = {} THEN {{}}
    ELSE {{g} : g \in ValidateAccessMatches(principal, target)}

\* A Cleanup that tests the creation instant instead of the expiry
CleanupExpired_ByCreation == {i \in DOMAIN grants : After(now, grants[i].CreatedAt)}

\* The ids Cleanup deletes
CleanupExpired == {i \in DOMAIN grants : After(now, grants[i].ExpiresAt)}

Add(principal, target, createdBy, duration) ==
    /\ LET g == NewGrant(principal, target, createdBy, duration) IN
        /\ grants' = Put(grants, g)
        /\ counter' = counter + 1
        /\ added' = Put(added, [ID |-> g.ID, Principal |-> principal, Target |-> target,
                                At |-> now, Duration |-> duration, Grant |-> g])
        /\ persisted' = Marshalled(Put(grants, g))
        /\ addCount' = addCount + 1
        /\ ret' = [op |-> "Add", grant |-> g]
    /\ UNCHANGED <<now, deleted, storeFrame>>

Delete(id) ==
    /\ IF id \notin DOMAIN grants
       THEN /\ ret' = [op |-> "Delete", id |-> id, ok |-> FALSE]
            /\ UNCHANGED <<grants, deleted, persisted>>
       ELSE /\ grants' = Remove(grants, {id})
            /\ persisted' = Marshalled(Remove(grants, {id}))
            /\ deleted' = deleted \cup {id}
            /\ ret' = [op |-> "Delete", id |-> id, ok |-> TRUE]
    /\ UNCHANGED <<now, counter, added, addCount, storeFrame>>

Cleanup ==
    /\ grants' = Remove(grants, CleanupExpired)
    /\ persisted' = IF CleanupExpired # {} THEN Marshalled(Remove(grants, CleanupExpired)) ELSE persisted
    /\ ret' = [op |-> "Cleanup", removed |-> Cardinality(CleanupExpired)]
    /\ UNCHANGED <<now, counter, added, deleted, addCount, storeFrame>>

GetCall(id) ==
    /\ ret' = [op |-> "Get", id |-> id, at |-> now, result |-> Get(id)]
    /\ UNCHANGED <<storeVars, storeFrame>>

ValidateAccessCall(principal, target) ==
    /\ \E r \in ValidateAccess(principal, target) :
          ret' = [op |-> "ValidateAccess", principal |-> principal, target |-> target,
                  at |-> now, result |-> r]
    /\ UNCHANGED <<storeVars, storeFrame>>

\* The clock moves on (s.now is time.Now in production)
Tick ==
    /\ now' = now + 1
    /\ ret' = NoCall
    /\ UNCHANGED <<grants, counter, added, deleted, persisted, addCount, storeFrame>>

\* The ids a caller can name: those ever returned by Add, and one that never was
KnownIDs == (DOMAIN added) \cup {<<0, 0>>}

StoreInit ==
    /\ now = 0
    /\ grants = <<>>
    /\ counter = 0
    /\ added = <<>>
    /\ deleted = {}
    /\ persisted = {}
    /\ addCount = 0

\* No channel has been requested, the session log is empty
BastionInit ==
    /\ chans = [c \in Channels |-> IdleChannel]
    /\ events = <<>>
    /\ sessionStarts = <<>>
    /\ appended = <<>>
    /\ adding = [p \in Adders |-> Idle]

\* fleet.NewManager: three empty maps
FleetInit ==
    /\ tenants = <<>>
    /\ agentToTenant = <<>>
    /\ ipToAgent = <<>>

\* NewReverseHandler: no token registered
ReverseInit == tokens = <<>>

\* api.NewStore: no agent, no rule, no log
ApiInit ==
    /\ apiAgents = <<>>
    /\ apiRules = <<>>
    /\ apiLogs = <<>>
    /\ requestsTotal = 0
    /\ blockedTotal = 0
    /\ everKilled = {}

\* rules.NewEngine with no option: no rule, allow by default
NewEngine(action) ==
    /\ rules = <<>>
    /\ compiled = <<>>
    /\ defaultAction = action
    /\ rulesPath = ""
    /\ files = [p \in Paths |-> {}]
    /\ mu = [writer |-> FALSE, readers |-> {}]
    /\ loading = [l \in Loaders |-> Idle]
    /\ evals = [p \in Evaluators |-> Idle]

\* NewEngine(): the default action is "allow"
EngineInit == NewEngine("allow")

\* mode.NewManager: enforce, no override
ModeInit ==
    /\ globalMode = "enforce"
    /\ agentModes = <<>>

\* Everything but the forward proxy's registry option
InitParts ==
    /\ StoreInit
    /\ ret = NoCall
    /\ BastionInit
    /\ FleetInit
    /\ ReverseInit
    /\ ApiInit
    /\ EngineInit
    /\ ModeInit
    /\ tunnels = <<>>

\* The gateway's wiring: NewHandler(inspector, WithAgentRegistry(fleetMgr))
Init ==
    /\ InitParts
    /\ registryAttached = TRUE

StoreNext ==
    \/ \E r \in GrantRequests, d \in Durations : counter < MaxGrants /\ Add(r[1], r[2], "admin", d)
    \/ \E id \in KnownIDs : Delete(id)
    \/ Cleanup
    \/ now < MaxTime /\ Tick

Next ==
    \/ StoreNext
    \/ \E id \in KnownIDs : GetCall(id)
    \/ \E p \in Principals, t \in Targets : ValidateAccessCall(p, t)

Spec == Init /\ [][Next]_vars

----------------------------------------------------------------------------
(* SSH bastion: LogStore, Logger, Server.handleConn, Server.handleDirectTCPIP *)

\* An Add that drops the new event when the store is full
LogStoreAdd_KeepsFirst(evs, e) ==
    IF Len(evs) + 1 > LogLimit THEN evs ELSE Append(evs, e)

\* LogStore.Add: append, then keep the last limit events
LogStoreAdd(evs, e) ==
    IF Len(evs) + 1 > LogLimit
    THEN SubSeq(Append(evs, e), Len(evs) + 2 - LogLimit, Len(evs) + 1)
    ELSE Append(evs, e)

SessionEvent(sessionID, grantID, principal, target, event, data) ==
    [SessionID |-> sessionID, GrantID |-> grantID, Principal |-> principal,
     Target |-> target, Event |-> event, Timestamp |-> now, Data |-> data]

\* Logger.LogDisconnect's duration: now - start when the start is on record, else 0
SessionDuration(sessionID) ==
    IF sessionID \in DOMAIN sessionStarts THEN now - sessionStarts[sessionID] ELSE 0

\* net.JoinHostPort(payload.DestAddr, payload.DestPort); the port plays no part here
Address(dest) == <<dest, "22">>

\* handleConn: a channel request arrives on connection k. Any type but
\* direct-tcpip is rejected at once; a direct-tcpip request gets its handler.
NewChannel(c, k, type, dest, payloadOK) ==
    /\ chans[c].st = "idle"
    /\ chans' = [chans EXCEPT ![c] =
          [IdleChannel EXCEPT
              !.type = type, !.conn = k, !.dest = dest, !.payloadOK = payloadOK,
              !.st = IF type = "direct-tcpip" THEN "handling" ELSE "rejected",
              !.reason = IF type = "direct-tcpip" THEN "" ELSE "UnknownChannelType"]]
    /\ UNCHANGED <<bastionFrame, events, sessionStarts, appended>>

\* A handler without the grant check: parse the payload and go on to Accept
CheckGrant_Unchecked(c) ==
    /\ chans[c].st = "handling"
    /\ chans' = [chans EXCEPT ![c] =
          IF ~chans[c].payloadOK
          THEN [@ EXCEPT !.st = "rejected", !.reason = "Prohibited"]
          ELSE [@ EXCEPT !.st = "granted"]]
    /\ UNCHANGED <<bastionFrame, events, sessionStarts, appended>>

\* handleDirectTCPIP up to the decision: an unparsable payload is rejected;
\* otherwise ValidateAccess(sshConn.User(), payload.DestAddr) is called and a
\* nil grant is rejected, both with Prohibited.
CheckGrant(c) ==
    /\ chans[c].st = "handling"
    /\ IF ~chans[c].payloadOK
       THEN chans' = [chans EXCEPT ![c] = [@ EXCEPT !.st = "rejected", !.reason = "Prohibited"]]
       ELSE \E r \in ValidateAccess(ConnUser[chans[c].conn], chans[c].dest) :
               chans' = [chans EXCEPT ![c] =
                   IF r = {}
                   THEN [@ EXCEPT !.validated = TRUE, !.grant = r,
                                  !.st = "rejected", !.reason = "Prohibited"]
                   ELSE [@ EXCEPT !.validated = TRUE, !.grant = r, !.st = "granted"]]
    /\ UNCHANGED <<bastionFrame, events, sessionStarts, appended>>

\* channel.Accept(): on an error the handler returns
Accept(c, ok) ==
    /\ chans[c].st = "granted"
    /\ chans' = [chans EXCEPT ![c] =
          IF ok THEN [@ EXCEPT !.st = "accepted", !.accepted = TRUE]
          ELSE [@ EXCEPT !.st = "returned"]]
    /\ UNCHANGED <<bastionFrame, events, sessionStarts, appended>>

\* net.Dial: on an error the handler returns and the deferred conn.Close()
\* closes the channel; nothing is logged.
Dial(c, ok) ==
    /\ chans[c].st = "accepted"
    /\ chans' = [chans EXCEPT ![c] =
          IF ok THEN [@ EXCEPT !.st = "dialled", !.dialled = TRUE]
          ELSE [@ EXCEPT !.st = "returned"]]
    /\ UNCHANGED <<bastionFrame, events, sessionStarts, appended>>

\* The session id is made of the connection's id and the instant; LogConnect
\* records the start and appends a connect event.
LogConnect(c) ==
    /\ chans[c].st = "dialled"
    /\ LET sid == <<chans[c].conn, now>>
           g == CHOOSE x \in chans[c].grant : TRUE
       IN /\ sessionStarts' = [i \in (DOMAIN sessionStarts) \cup {sid} |->
                                   IF i = sid THEN now ELSE sessionStarts[i]]
          /\ events' = LogStoreAdd(events,
                SessionEvent(sid, g.ID, ConnUser[chans[c].conn], Address(chans[c].dest),
                             "connect", ""))
          /\ appended' = Append(appended,
                SessionEvent(sid, g.ID, ConnUser[chans[c].conn], Address(chans[c].dest),
                             "connect", ""))
          /\ chans' = [chans EXCEPT ![c] =
                [@ EXCEPT !.st = "splicing", !.session = sid,
                          !.logged = Append(@, "connect")]]
    /\ UNCHANGED <<bastionFrame>>

\* proxyBidirectional: one of the two io.Copy goroutines ends
CopyEnds(c, dir) ==
    /\ chans[c].st = "splicing"
    /\ dir \notin chans[c].copied
    /\ chans' = [chans EXCEPT ![c] = [@ EXCEPT !.copied = @ \cup {dir}]]
    /\ UNCHANGED <<bastionFrame, events, sessionStarts, appended>>

\* wg.Wait() returns once both copies have ended; the deferred calls then run:
\* LogDisconnect, targetConn.Close(), conn.Close().
SpliceReturns(c) ==
    /\ chans[c].st = "splicing"
    /\ chans[c].copied = {"toChannel", "toTarget"}
    /\ LET sid == chans[c].session
           g == CHOOSE x \in chans[c].grant : TRUE
       IN /\ events' = LogStoreAdd(events,
                SessionEvent(sid, g.ID, ConnUser[chans[c].conn], Address(chans[c].dest),
                             "disconnect", SessionDuration(sid)))
          /\ appended' = Append(appended,
                SessionEvent(sid, g.ID, ConnUser[chans[c].conn], Address(chans[c].dest),
                             "disconnect", SessionDuration(sid)))
          /\ sessionStarts' = [i \in (DOMAIN sessionStarts) \ {sid} |-> sessionStarts[i]]
          /\ chans' = [chans EXCEPT ![c] =
                [@ EXCEPT !.st = "returned", !.logged = Append(@, "disconnect")]]
    /\ UNCHANGED <<bastionFrame>>

\* The channel requests clients make: <<connection, type, dest_addr, payload parses>>
ChannelRequests ==
    {<<"k1", "session", "agent-1", TRUE>>,
     <<"k1", "direct-tcpip", "agent-1", FALSE>>,
     <<"k1", "direct-tcpip", "agent-1", TRUE>>,
     <<"k1", "direct-tcpip", "agent-2", TRUE>>,
     <<"k2", "direct-tcpip", "agent-2", TRUE>>}

\* The durations of the grants added while the bastion runs
SessionDurations == {1}

BastionNext ==
    \/ \E r \in GrantRequests, d \in SessionDurations :
          counter < MaxSessionGrants /\ Add(r[1], r[2], "admin", d)
    \/ \E id \in DOMAIN grants : Delete(id)
    \/ now < MaxSessionTime /\ Tick
    \/ \E c \in Channels, q \in ChannelRequests : NewChannel(c, q[1], q[2], q[3], q[4])
    \/ \E c \in Channels : CheckGrant(c)
    \/ \E c \in Channels, ok \in BOOLEAN : Accept(c, ok)
    \/ \E c \in Channels, ok \in BOOLEAN : Dial(c, ok)
    \/ \E c \in Channels : LogConnect(c)
    \/ \E c \in Channels, dir \in {"toChannel", "toTarget"} : CopyEnds(c, dir)
    \/ \E c \in Channels : SpliceReturns(c)

SpecBastion == Init /\ [][BastionNext]_vars

----------------------------------------------------------------------------
(* Claims about the GrantStore, checked under Spec *)

\* C6: ValidateAccess(principal, target) returns a grant only if that grant is
\* in the store, its principal equals principal, its target equals target or
\* is "*", and now < expires_at; in every other case it returns nil.
\* (Stated of the value the last ValidateAccess call returned; the call and
\* its return are one step, so the store and the clock are those it read.)
C6_ValidateAccessOnlyLive ==
    ret.op = "ValidateAccess" =>
        /\ \A g \in ret.result :
            /\ g.ID \in DOMAIN grants
            /\ grants[g.ID] = g
            /\ g.Principal = ret.principal
            /\ (g.Target = ret.target \/ g.Target = "*")
            /\ now < g.ExpiresAt
        /\ (ret.result = {}) <=>
              ~ \E i \in DOMAIN grants :
                  /\ grants[i].Principal = ret.principal
                  /\ (grants[i].Target = ret.target \/ grants[i].Target = "*")
                  /\ now < grants[i].ExpiresAt

\* The state C6 fails in: ValidateAccess has just returned a grant at the very
\* instant it expires.
C6_ReturnedAtExpiry ==
    /\ ret.op = "ValidateAccess"
    /\ \E g \in ret.result : now = g.ExpiresAt

\* C7: Get(id) returns nil at every clock value now >= expires_at (now equal
\* to expires_at included) and for every id that is not in the store.
C7_GetNilFromExpiry ==
    \A id \in KnownIDs :
        (id \notin DOMAIN grants \/ now >= grants[id].ExpiresAt) => Get(id) = {}

\* C8: after Add(p, t, c, d) at instant T, every ValidateAccess(p, t) at an
\* instant from T up to T + d returns a grant, as long as that grant has not
\* been deleted; a Cleanup in that interval does not remove it.
C8_GrantLivesForDuration ==
    \A id \in (DOMAIN added) \ deleted :
        (added[id].At <= now /\ now < added[id].At + added[id].Duration)
            => /\ id \in DOMAIN grants
               /\ {} \notin ValidateAccess(added[id].Principal, added[id].Target)

\* A Cleanup that removed an expired grant has just run while another grant,
\* added earlier and not deleted, is inside its interval.
C8_Witness ==
    /\ ret.op = "Cleanup"
    /\ ret.removed > 0
    /\ \E id \in (DOMAIN added) \ deleted :
          /\ added[id].At < now
          /\ now < added[id].At + added[id].Duration
          /\ {} \notin ValidateAccess(added[id].Principal, added[id].Target)

\* C9: once Delete(id) has returned true, Get(id) returns nil and no
\* ValidateAccess returns the grant with that id, in every later state.
C9_DeleteRevokes ==
    \A id \in deleted :
        /\ Get(id) = {}
        /\ \A p \in Principals, t \in Targets :
              \A r \in ValidateAccess(p, t) : \A g \in r : g.ID # id

\* After a Delete returned true, an Add at the clock value of the deleted
\* grant's creation has put a new live grant for the same principal and
\* target into the store.
C9_Witness ==
    /\ ret.op = "Add"
    /\ \E id \in deleted :
          /\ ret.grant.CreatedAt = added[id].At
          /\ ret.grant.Principal = added[id].Principal
          /\ ret.grant.Target = added[id].Target
          /\ {} \notin ValidateAccess(added[id].Principal, added[id].Target)

----------------------------------------------------------------------------
(* CertificateAuthority *)

\* A certificate whose ValidBefore is rounded up to the next whole second
CertValidBefore_RoundUp(g) == Unix(g.ExpiresAt + TicksPerSec - 1)

\* ValidBefore: uint64(grant.ExpiresAt.Unix())
CertValidBefore(g) == Unix(g.ExpiresAt)

NewCertificate(key, g) ==
    [Key             |-> key,
     Serial          |-> now,
     CertType        |-> "user",
     KeyId           |-> g.ID,
     ValidPrincipals |-> <<g.Principal>>,
     ValidAfter      |-> Unix(now),
     ValidBefore     |-> CertValidBefore(g),
     Extensions      |-> [grant_id |-> g.ID, target |-> g.Target]]

\* The error IssueUserCertificate returns ("" for none); signOK is whether
\* cert.SignCert succeeds.
IssueError(publicKey, grant, signOK) ==
    IF publicKey = {} THEN "public key required"
    ELSE IF grant = {} THEN "grant required"
    ELSE IF \E g \in grant : ~After(g.ExpiresAt, now) THEN "grant expired"
    ELSE IF ~signOK THEN "sign certificate"
    ELSE ""

IssueUserCertificate(publicKey, grant, signOK) ==
    /\ ret' = [op     |-> "IssueUserCertificate",
               grant  |-> grant,
               at     |-> now,
               err    |-> IssueError(publicKey, grant, signOK),
               cert   |-> IF IssueError(publicKey, grant, signOK) # "" THEN {}
                          ELSE {NewCertificate(k, g) : k \in publicKey, g \in grant}]
    /\ UNCHANGED <<storeVars, storeFrame>>

\* The grants a caller can pass: nil, and every grant Add has returned
\* (still in the store or not)
HeldGrants == {{}} \cup {{added[i].Grant} : i \in DOMAIN added}

PublicKeys == {{}, {"key-1"}}

CANext ==
    \/ StoreNext
    \/ \E k \in PublicKeys, g \in HeldGrants, ok \in BOOLEAN : IssueUserCertificate(k, g, ok)

SpecCA == Init /\ [][CANext]_vars

\* C10: IssueUserCertificate returns a certificate only for a grant that is
\* live (expires_at > now) and an error otherwise; the certificate's only
\* principal is grant.principal and its valid_before is grant.expires_at in
\* the whole seconds a certificate counts in, so that no certificate is valid
\* beyond the expiry of its grant.
C10_CertBoundByGrant ==
    ret.op = "IssueUserCertificate" =>
        /\ (ret.cert = {}) <=> (ret.err # "")
        /\ (ret.grant = {} \/ \E g \in ret.grant : g.ExpiresAt <= now) => ret.cert = {}
        /\ \A c \in ret.cert :
              /\ ret.grant # {}
              /\ \A g \in ret.grant :
                    /\ g.ExpiresAt > now
                    /\ c.ValidPrincipals = <<g.Principal>>
                    /\ c.ValidBefore * TicksPerSec <= g.ExpiresAt
                    /\ g.ExpiresAt < (c.ValidBefore + 1) * TicksPerSec

\* A certificate has just been issued for a live grant that expires inside a
\* second, not on a second boundary.
C10_Witness ==
    /\ ret.op = "IssueUserCertificate"
    /\ \E c \in ret.cert : \E g \in ret.grant :
          /\ g.ExpiresAt % TicksPerSec # 0
          /\ c.ValidBefore * TicksPerSec < g.ExpiresAt

----------------------------------------------------------------------------
(* Claims about the bastion, checked under SpecBastion *)

\* C1: a direct-tcpip channel is accepted only if ValidateAccess(connection
\* user, dest_addr) returned a grant for that request, and that call comes
\* before Accept; a request for which it returned nil is rejected with
\* Prohibited, its target is never dialled and no connect event is recorded.
C1_AcceptOnlyWithGrant ==
    /\ \A c \in Channels :
          /\ chans[c].accepted =>
                /\ chans[c].validated
                /\ chans[c].grant # {}
                /\ \A g \in chans[c].grant :
                      /\ g.Principal = ConnUser[chans[c].conn]
                      /\ matchTarget(g.Target, chans[c].dest)
          /\ (chans[c].dialled \/ chans[c].logged # <<>>) => chans[c].accepted
          /\ (chans[c].validated /\ chans[c].grant = {}) =>
                /\ chans[c].st = "rejected"
                /\ chans[c].reason = "Prohibited"
                /\ ~chans[c].accepted
                /\ ~chans[c].dialled
                /\ chans[c].logged = <<>>
    /\ \A i \in 1..Len(events) :
          events[i].Event = "connect" =>
              \E c \in Channels :
                  /\ chans[c].session = events[i].SessionID
                  /\ chans[c].accepted
                  /\ \E g \in chans[c].grant : g.ID = events[i].GrantID

\* The same request, made twice on one connection: the first was accepted
\* under a live grant and its connect event recorded; the second, made after
\* the grant expired, was rejected with Prohibited.
C1_Witness ==
    \E c, d \in Channels :
        /\ c # d
        /\ chans[c].conn = chans[d].conn
        /\ chans[c].dest = chans[d].dest
        /\ chans[c].accepted
        /\ chans[c].logged # <<>>
        /\ \E g \in chans[c].grant : After(now, g.ExpiresAt)
        /\ chans[d].validated
        /\ chans[d].grant = {}
        /\ chans[d].st = "rejected"
        /\ chans[d].reason = "Prohibited"

----------------------------------------------------------------------------
(* Go maps *)

MapSet(m, k, v) == [x \in (DOMAIN m) \cup {k} |-> IF x = k THEN v ELSE m[x]]
MapDelete(m, k) == [x \in (DOMAIN m) \ {k} |-> m[x]]

----------------------------------------------------------------------------
(* fleet.Manager *)

\* The Tenant that CreateTenant, SetMode and AddAgent build for a new id.
\* ReverseHandler.ServeHTTP reads tenant.CaptainName; a Tenant built here has
\* the zero value in it.
NewTenant(tenantID, mode) ==
    [ID |-> tenantID, Mode |-> mode, Agents |-> <<>>, CaptainName |-> ""]

\* GetTenant: the tenant, or nil
GetTenant(tenantID) ==
    IF tenantID \in DOMAIN tenants THEN {tenants[tenantID]} ELSE {}

\* ValidateAgentIP: (agentID, tier, valid)
ValidateAgentIP(ip) ==
    IF ip \notin DOMAIN ipToAgent
    THEN <<"", "", FALSE>>
    ELSE <<ipToAgent[ip].ID,
           IF ipToAgent[ip].Tier = "" THEN "crew" ELSE ipToAgent[ip].Tier,
           TRUE>>

CreateTenant(tenantID) ==
    /\ tenants' = MapSet(tenants, tenantID, NewTenant(tenantID, "isolated"))
    /\ ret' = NoCall
    /\ UNCHANGED <<agentToTenant, ipToAgent, fleetFrame>>

\* SetCaptainName on a tenant that exists: the tenant's captain display name
SetCaptainName(tenantID, name) ==
    /\ tenantID \in DOMAIN tenants
    /\ tenants' = [tenants EXCEPT ![tenantID].CaptainName = name]
    /\ ret' = NoCall
    /\ UNCHANGED <<agentToTenant, ipToAgent, fleetFrame>>

SetMode(tenantID, mode) ==
    /\ tenants' = IF tenantID \notin DOMAIN tenants
                  THEN MapSet(tenants, tenantID, NewTenant(tenantID, mode))
                  ELSE [tenants EXCEPT ![tenantID].Mode = mode]
    /\ ret' = NoCall
    /\ UNCHANGED <<agentToTenant, ipToAgent, fleetFrame>>

AddAgent(tenantID, agent) ==
    LET tenant == IF tenantID \in DOMAIN tenants THEN tenants[tenantID]
                  ELSE NewTenant(tenantID, "isolated")
    IN  /\ tenants' = MapSet(tenants, tenantID,
                             [tenant EXCEPT !.Agents = MapSet(tenant.Agents, agent.ID, agent)])
        /\ agentToTenant' = MapSet(agentToTenant, agent.ID, tenantID)
        /\ ipToAgent' = IF agent.IP # "" THEN MapSet(ipToAgent, agent.IP, agent)
                        ELSE ipToAgent
        /\ ret' = NoCall
        /\ UNCHANGED <<fleetFrame>>

RemoveAgent(tenantID, agentID) ==
    /\ ret' = NoCall
    /\ IF tenantID \notin DOMAIN tenants
       THEN UNCHANGED <<tenants, agentToTenant, ipToAgent>>
       ELSE LET tenant == tenants[tenantID]
            IN  /\ ipToAgent' = IF agentID \in DOMAIN tenant.Agents
                                   /\ tenant.Agents[agentID].IP # ""
                                THEN MapDelete(ipToAgent, tenant.Agents[agentID].IP)
                                ELSE ipToAgent
                /\ tenants' = [tenants EXCEPT ![tenantID].Agents = MapDelete(@, agentID)]
                /\ agentToTenant' = MapDelete(agentToTenant, agentID)
    /\ UNCHANGED <<fleetFrame>>

\* The values of a Go map, in the order of no one's choosing: a set
Values(m) == {m[k] : k \in DOMAIN m}

\* A GetAgents that does not look at the tenant's mode
GetAgents_IgnoresMode(tenantID) ==
    IF tenantID \notin DOMAIN tenants THEN [nil |-> TRUE, agents |-> {}]
    ELSE [nil |-> FALSE, agents |-> Values(tenants[tenantID].Agents)]

\* GetAgents: nil, or the tenant's agents
GetAgents(tenantID) ==
    IF tenantID \notin DOMAIN tenants THEN [nil |-> TRUE, agents |-> {}]
    ELSE IF tenants[tenantID].Mode = "isolated" THEN [nil |-> TRUE, agents |-> {}]
    ELSE [nil |-> FALSE, agents |-> Values(tenants[tenantID].Agents)]

\* GetAgentsForAgent: nil, or the other agents of the tenant that the
\* agent-to-tenant index names; make([]Agent, 0, len(tenant.Agents)-1) panics
\* when that tenant has no agent
GetAgentsForAgent(agentID) ==
    LET Others(tenant) ==
            IF tenant.Mode = "isolated"
            THEN [panic |-> FALSE, nil |-> TRUE, agents |-> {}]
            ELSE IF DOMAIN tenant.Agents = {}
            THEN [panic |-> TRUE, nil |-> FALSE, agents |-> {}]
            ELSE [panic |-> FALSE, nil |-> FALSE,
                  agents |-> {a \in Values(tenant.Agents) : a.ID # agentID}]
    IN  IF agentID \notin DOMAIN agentToTenant
        THEN [panic |-> FALSE, nil |-> TRUE, agents |-> {}]
        ELSE IF agentToTenant[agentID] \notin DOMAIN tenants
        THEN [panic |-> FALSE, nil |-> TRUE, agents |-> {}]
        ELSE Others(tenants[agentToTenant[agentID]])

\* m.agentToTenant[id]: the zero value "" when the id is not a key
TenantOf(agentID) ==
    IF agentID \in DOMAIN agentToTenant THEN agentToTenant[agentID] ELSE ""

\* A CanCommunicate that does not look at the tenant's mode
CanCommunicate_AnyMode(fromAgentID, toAgentID) ==
    /\ TenantOf(fromAgentID) # ""
    /\ TenantOf(fromAgentID) = TenantOf(toAgentID)
    /\ TenantOf(fromAgentID) \in DOMAIN tenants

CanCommunicate(fromAgentID, toAgentID) ==
    IF TenantOf(fromAgentID) = "" \/ TenantOf(fromAgentID) # TenantOf(toAgentID)
    THEN FALSE
    ELSE IF TenantOf(fromAgentID) \notin DOMAIN tenants THEN FALSE
    ELSE tenants[TenantOf(fromAgentID)].Mode = "fleet"

\* What a query of the registry leaves alone
queryFrame == <<tenants, agentToTenant, ipToAgent, fleetFrame>>

GetAgentsCall(tenantID) ==
    /\ ret' = [op |-> "GetAgents", tenant |-> tenantID, result |-> GetAgents(tenantID)]
    /\ UNCHANGED queryFrame

GetAgentsForAgentCall(agentID) ==
    /\ ret' = [op |-> "GetAgentsForAgent", agent |-> agentID,
               result |-> GetAgentsForAgent(agentID)]
    /\ UNCHANGED queryFrame

CanCommunicateCall(fromAgentID, toAgentID) ==
    /\ ret' = [op |-> "CanCommunicate", from |-> fromAgentID, to |-> toAgentID,
               result |-> CanCommunicate(fromAgentID, toAgentID)]
    /\ UNCHANGED queryFrame

ValidateAgentIPCall(ip) ==
    /\ ret' = [op |-> "ValidateAgentIP", ip |-> ip, result |-> ValidateAgentIP(ip)]
    /\ UNCHANGED queryFrame

----------------------------------------------------------------------------
(* ReverseHandler *)

(* A URL path is the sequence of its "/"-separated segments, "/agent/a1/x"   *)
(* being <<"", "agent", "a1", "x">>; an Authorization value is the sequence  *)
(* of its " "-separated words, and so is a bearer token; the empty string   *)
(* is <<"">> in all three.                                                   *)

\* strings.ToLower on the header names and schemes that occur
LowerTable ==
    ("Bearer" :> "bearer") @@ ("BEARER" :> "bearer") @@ ("Basic" :> "basic") @@
    ("Authorization" :> "authorization") @@ ("Connection" :> "connection") @@
    ("X-Forwarded-For" :> "x-forwarded-for") @@ ("X-Agent-Id" :> "x-agent-id") @@
    ("X-Real-Ip" :> "x-real-ip") @@ ("Accept" :> "accept") @@
    ("X-Captain" :> "x-captain") @@ ("X-Agent-Token" :> "x-agent-token") @@
    ("X-Agent-Tier" :> "x-agent-tier") @@ ("Proxy-Connection" :> "proxy-connection") @@
    ("Keep-Alive" :> "keep-alive") @@ ("Proxy-Authenticate" :> "proxy-authenticate") @@
    ("Proxy-Authorization" :> "proxy-authorization") @@ ("Te" :> "te") @@
    ("TE" :> "te") @@ ("Trailers" :> "trailers") @@
    ("Transfer-Encoding" :> "transfer-encoding") @@ ("Upgrade" :> "upgrade") @@
    ("X-Real-IP" :> "x-real-ip") @@ ("X-Originating-Ip" :> "x-originating-ip") @@
    ("X-Remote-Ip" :> "x-remote-ip") @@ ("X-Remote-Addr" :> "x-remote-addr") @@
    ("X-Client-Ip" :> "x-client-ip") @@ ("X-Source-Agent" :> "x-source-agent") @@
    ("X-SOURCE-AGENT" :> "x-source-agent") @@ ("X-CAPTAIN" :> "x-captain") @@
    ("X-Forwarded-Proto" :> "x-forwarded-proto") @@
    ("X-Plasma-Shield" :> "x-plasma-shield") @@ ("X-Request-Id" :> "x-request-id") @@
    ("X-Agent-ID" :> "x-agent-id") @@ ("PROXY-CONNECTION" :> "proxy-connection")
ToLower(str) == IF str \in DOMAIN LowerTable THEN LowerTable[str] ELSE str

\* textproto.CanonicalMIMEHeaderKey, which http.Header's Get, Add and Set apply
\* to the name they are given: the first letter and every letter after a
\* hyphen in upper case, the others in lower case
CanonicalNames ==
    {"Authorization", "Connection", "Keep-Alive", "Proxy-Authenticate",
     "Proxy-Authorization", "Te", "Trailers", "Transfer-Encoding", "Upgrade",
     "X-Forwarded-For", "X-Real-Ip", "X-Originating-Ip", "X-Remote-Ip",
     "X-Remote-Addr", "X-Client-Ip", "X-Agent-Id", "X-Source-Agent", "Accept",
     "X-Captain", "X-Forwarded-Proto", "X-Plasma-Shield", "X-Request-Id",
     "X-Agent-Token", "X-Agent-Tier", "Proxy-Connection"}
CanonicalTable ==
    [l \in {ToLower(n) : n \in CanonicalNames} |->
        CHOOSE n \in CanonicalNames : ToLower(n) = l]
CanonicalHeaderKey(k) ==
    IF ToLower(k) \in DOMAIN CanonicalTable THEN CanonicalTable[ToLower(k)] ELSE k

\* The reverse proxy's request header is Go's map[string][]string: a name has a
\* list of values.  http.Header.Get is the first value under the canonical name.
HeaderFirst(h, name, none) ==
    IF CanonicalHeaderKey(name) \in DOMAIN h /\ h[CanonicalHeaderKey(name)] # <<>>
    THEN h[CanonicalHeaderKey(name)][1]
    ELSE none

\* extractBearerToken: the words after the scheme; <<"">> (the empty string)
\* when there is no bearer token
extractBearerToken(r) ==
    LET auth == HeaderFirst(r.Header, "Authorization", <<"">>)
    IN  IF auth = <<"">> THEN <<"">>
        ELSE IF Len(auth) < 2 \/ ToLower(auth[1]) # "bearer" THEN <<"">>
        ELSE SubSeq(auth, 2, Len(auth))

\* strings.TrimPrefix(path, "/")
TrimSlash(path) == IF Len(path) >= 2 /\ path[1] = "" THEN Tail(path) ELSE path

\* An endpoint URL is <<"http://", host, ":port">>, with a path after it or
\* not; <<>> is the empty string.  url.Parse fails on a port that is no number.
Ports == {":18789", ":9000"}
ParseURL(u) ==
    IF Len(u) >= 3 /\ u[1] = "http://" /\ u[3] \in Ports
    THEN {[Scheme |-> "http", Host |-> <<u[2], u[3]>>]}
    ELSE {}

HopByHop ==
    {"authorization", "connection", "keep-alive", "proxy-authenticate",
     "proxy-authorization", "te", "trailers", "transfer-encoding", "upgrade"}
IdentityRevealing ==
    {"x-forwarded-for", "x-real-ip", "x-originating-ip", "x-remote-ip",
     "x-remote-addr", "x-client-ip", "x-agent-id", "x-source-agent"}

\* The names whose values forward copies, where the test is made on the name
\* as the request has it
KeptKeys_CaseSensitive(h) ==
    {k \in DOMAIN h : k \notin HopByHop \cup IdentityRevealing}

\* The names whose values forward copies: those the two lists do not have
KeptKeys(h) ==
    {k \in DOMAIN h : ToLower(k) \notin HopByHop \cup IdentityRevealing}

\* forward ranges over the request's header in the order of Go's map
\* iteration, which is any order.  The order shows in the outgoing request
\* only among copied names that have one canonical name: KeyOrders is the
\* orders of those.
RECURSIVE Perms(_)
Perms(S) ==
    IF S = {} THEN {<<>>}
    ELSE UNION {{<<x>> \o p : p \in Perms(S \ {x})} : x \in S}
KeyOrders(h) ==
    Perms({k \in KeptKeys(h) :
              \E j \in KeptKeys(h) :
                  j # k /\ CanonicalHeaderKey(j) = CanonicalHeaderKey(k)})

\* The values outReq.Header.Add leaves under canonical name c
RECURSIVE Gather(_, _, _)
Gather(h, order, c) ==
    IF order = <<>> THEN <<>>
    ELSE (IF CanonicalHeaderKey(Head(order)) = c THEN h[Head(order)] ELSE <<>>)
         \o Gather(h, Tail(order), c)
CopiedValues(h, order, c) ==
    LET from == {k \in KeptKeys(h) : CanonicalHeaderKey(k) = c}
    IN  IF Cardinality(from) = 1 THEN h[CHOOSE k \in from : TRUE]
        ELSE Gather(h, order, c)

\* A Set that adds the value to those the name has
HeaderSet_Appends(h, name, value) ==
    MapSet(h, CanonicalHeaderKey(name),
           (IF CanonicalHeaderKey(name) \in DOMAIN h THEN h[CanonicalHeaderKey(name)]
            ELSE <<>>) \o <<value>>)

\* http.Header.Set: the name has this one value
HeaderSet(h, name, value) == MapSet(h, CanonicalHeaderKey(name), <<value>>)

\* The headers ReverseHandler.forward puts on the outgoing request, when the
\* copied names with a common canonical name come in this order
MaskedHeader(h, captainName, order) ==
    LET names == {c \in {CanonicalHeaderKey(k) : k \in KeptKeys(h)} :
                     CopiedValues(h, order, c) # <<>>}
        copied == [c \in names |-> CopiedValues(h, order, c)]
    IN  HeaderSet(HeaderSet(HeaderSet(copied, "X-Captain", captainName),
                            "X-Forwarded-Proto", "https"),
                  "X-Plasma-Shield", "true")

\* jsonError
JsonError(r, token, message, code) ==
    [op |-> "ReverseServeHTTP", req |-> r, token |-> token, status |-> code,
     error |-> message, log |-> <<>>, upstream |-> {}]

RegisterToken(token, tenantID) ==
    /\ tokens' = MapSet(tokens, token, tenantID)
    /\ ret' = NoCall
    /\ UNCHANGED <<reverseFrame>>

\* A lookup that finds the agent in whichever tenant has it
FindAgent_AnyTenant(tenant, agentID) ==
    LET owners == {t \in DOMAIN tenants : agentID \in DOMAIN tenants[t].Agents}
    IN  IF owners = {} THEN {}
        ELSE {tenants[CHOOSE t \in owners : TRUE].Agents[agentID]}

\* agent, exists := tenant.Agents[agentID]; {} when it does not exist
FindAgent(tenant, agentID) ==
    IF agentID \in DOMAIN tenant.Agents THEN {tenant.Agents[agentID]} ELSE {}

\* What ServeHTTP answers to request r when the agent's endpoint answers resp
\* ({} when client.Do fails) and forward ranges over the header in this order
ReverseResponse(r, resp, order) ==
    LET token == extractBearerToken(r)
        parts == TrimSlash(r.Path)
        agentID == parts[2]
        remainingPath == <<"">> \o (IF Len(parts) > 2 THEN SubSeq(parts, 3, Len(parts))
                                   ELSE <<"">>)
        tenantID == tokens[token]
        tenant == tenants[tenantID]
        agent == CHOOSE x \in FindAgent(tenant, agentID) : TRUE
        targetURL == IF agent.WebhookURL = <<>> /\ agent.IP # ""
                     THEN <<"http://", agent.IP, ":18789">>
                     ELSE agent.WebhookURL
        target == ParseURL(targetURL)
        captainName == IF tenant.CaptainName = "" THEN tenantID ELSE tenant.CaptainName
        outReq == [Method |-> r.Method,
                   URL |-> [Scheme |-> (CHOOSE u \in target : TRUE).Scheme,
                            Host |-> (CHOOSE u \in target : TRUE).Host,
                            Path |-> remainingPath, RawQuery |-> r.RawQuery],
                   Header |-> MaskedHeader(r.Header, captainName, order)]
        entry == [direction |-> "inbound", tenant |-> tenantID, agent |-> agentID,
                  method |-> r.Method, path |-> remainingPath, action |-> "forward"]
    IN  IF token = <<"">>
        THEN JsonError(r, token, "Unauthorized: missing bearer token", 401)
        ELSE IF token \notin DOMAIN tokens
        THEN JsonError(r, token, "Unauthorized: invalid token", 401)
        ELSE IF Len(parts) < 2 \/ parts[1] # "agent"
        THEN JsonError(r, token, "Not found: use /agent/{agent-id}/...", 404)
        ELSE IF GetTenant(tenantID) = {}
        THEN JsonError(r, token, "Forbidden: tenant not found", 403)
        ELSE IF FindAgent(tenant, agentID) = {}
        THEN JsonError(r, token, "Forbidden: agent not in your fleet", 403)
        ELSE IF targetURL = <<>>
        THEN JsonError(r, token, "Bad gateway: agent has no endpoint configured", 502)
        ELSE IF target = {}
        THEN JsonError(r, token, "Bad gateway: invalid agent URL", 502)
        ELSE [op |-> "ReverseServeHTTP", req |-> r, token |-> token,
              status |-> IF resp = {} THEN 502 ELSE CHOOSE c \in resp : TRUE,
              error |-> IF resp = {} THEN "Bad gateway: " ELSE "",
              log |-> <<entry>>, upstream |-> {outReq}]

ReverseServeHTTP(r, resp) ==
    /\ \E order \in KeyOrders(r.Header) : ret' = ReverseResponse(r, resp, order)
    /\ UNCHANGED <<tokens, reverseFrame>>

----------------------------------------------------------------------------
(* The reverse proxy over a fleet that changes *)

TenantIDs == {"ta", "tb"}

\* An agent with a webhook, one with only an IP, one with no endpoint, and one
\* whose webhook URL does not parse
AgentA1 == [ID |-> "a1", IP |-> "",
            WebhookURL |-> <<"http://", "a1.internal", ":9000", "/hook">>, Tier |-> "crew"]
AgentB1 == [ID |-> "b1", IP |-> "10.0.0.2", WebhookURL |-> <<>>, Tier |-> ""]
AgentC1 == [ID |-> "c1", IP |-> "", WebhookURL |-> <<>>, Tier |-> ""]
AgentC1Bad == [ID |-> "c1", IP |-> "", WebhookURL |-> <<"http://", "c1", ":bad">>,
               Tier |-> ""]
\* The AddAgent calls made: each agent to its own tenant, and b1 to ta as well
FleetAdds ==
    {<<"ta", AgentA1>>, <<"tb", AgentB1>>, <<"ta", AgentB1>>, <<"tb", AgentC1>>,
     <<"tb", AgentC1Bad>>}
AgentIDs == {x[2].ID : x \in FleetAdds}

\* The RegisterToken calls made: each tenant's token, and ta's token moved to tb
TokenRegistrations ==
    {<<<<"ta-tok">>, "ta">>, <<<<"tb-tok">>, "tb">>, <<<<"ta-tok">>, "tb">>}

\* The requests sent to the reverse proxy: <<Authorization, path>>
ReverseCalls ==
    {<< <<"">>,                   <<"", "agent", "a1", "ping">> >>,
     << <<"Basic", "ta-tok">>,    <<"", "agent", "a1", "ping">> >>,
     << <<"Bearer">>,             <<"", "agent", "a1", "ping">> >>,
     << <<"Bearer", "no-tok">>,   <<"", "agent", "a1", "ping">> >>,
     << <<"Bearer", "ta-tok">>,   <<"", "agent", "a1", "ping">> >>,
     << <<"Bearer", "ta-tok">>,   <<"", "agent", "b1", "ping", "x">> >>,
     << <<"bearer", "tb-tok">>,   <<"", "agent", "b1", "ping", "x">> >>,
     << <<"bearer", "tb-tok">>,   <<"", "agent", "a1", "ping">> >>,
     << <<"bearer", "tb-tok">>,   <<"", "agent", "c1">> >>,
     << <<"Bearer", "ta-tok">>,   <<"", "agent">> >>,
     << <<"Bearer", "ta-tok">>,   <<"", "status", "a1">> >>}
ReverseRequests ==
    {[Method |-> "GET", Path |-> c[2], RawQuery |-> "",
      Header |-> IF c[1] = <<"">> THEN ("Accept" :> <<"json">>)
                 ELSE ("Authorization" :> <<c[1]>>) @@ ("X-Forwarded-For" :> <<"1.2.3.4">>)
                      @@ ("X-Agent-Id" :> <<"fleet-command">>)
                      @@ ("Accept" :> <<"json">>)] :
        c \in ReverseCalls}

\* What the agent's endpoint answers: nothing (client.Do fails), or a status
UpstreamAnswers == {{}, {200}}

FleetNext ==
    \/ \E t \in TenantIDs : CreateTenant(t)
    \/ SetMode("ta", "fleet")
    \/ \E x \in FleetAdds : AddAgent(x[1], x[2])
    \/ \E t \in TenantIDs, a \in AgentIDs : RemoveAgent(t, a)

ReverseNext ==
    \/ FleetNext
    \/ \E x \in TokenRegistrations : RegisterToken(x[1], x[2])
    \/ \E r \in ReverseRequests, resp \in UpstreamAnswers : ReverseServeHTTP(r, resp)

SpecReverse == Init /\ [][ReverseNext]_vars

----------------------------------------------------------------------------
(* C2 *)

\* The agent the path of request r names, "/agent/{id}/..."; {} if it names none
NamedAgent(r) ==
    IF Len(r.Path) >= 3 /\ r.Path[1] = "" /\ r.Path[2] = "agent" THEN {r.Path[3]} ELSE {}

\* The tenants that hold bearer token k
TokenTenant(k) == IF k \in DOMAIN tokens THEN {tokens[k]} ELSE {}

\* The agent records that tenant t has under id a
OwnedAgent(t, a) ==
    IF t \in DOMAIN tenants /\ a \in DOMAIN tenants[t].Agents
    THEN {tenants[t].Agents[a]} ELSE {}

\* C2: the reverse proxy calls an agent endpoint only for a request whose
\* Authorization header carries a registered bearer token of a tenant T and
\* whose path names an agent that is in T's agent mapping at that moment, and
\* the endpoint called is that agent's; a request with T's token that names an
\* agent T does not have (another tenant's agent included) is answered 403
\* and no upstream call is made.  This holds after every sequence of
\* CreateTenant, SetMode, AddAgent, RemoveAgent and RegisterToken.
C2_ForwardOnlyOwnAgent ==
    ret.op = "ReverseServeHTTP" =>
        LET r == ret.req
            auth == HeaderFirst(r.Header, "Authorization", <<"">>)
            bearer == IF Len(auth) = 2 /\ auth[1] \in {"Bearer", "bearer"}
                      THEN {<<auth[2]>>} ELSE {}
            owners == UNION {TokenTenant(k) : k \in bearer}
            owned == UNION {OwnedAgent(t, a) : t \in owners, a \in NamedAgent(r)}
        IN  /\ ret.upstream # {} =>
                /\ owned # {}
                /\ \A out \in ret.upstream, ag \in owned :
                       out.URL.Host[1] = IF ag.WebhookURL = <<>> THEN ag.IP
                                         ELSE ag.WebhookURL[2]
            /\ (owners # {} /\ NamedAgent(r) # {} /\ owned = {}) =>
                   /\ ret.status = 403
                   /\ ret.upstream = {}

\* ta's token asks for b1, which tb has and ta has not, while ta has a1: 403
C2_Witness ==
    /\ ret.op = "ReverseServeHTTP"
    /\ ret.token = <<"ta-tok">>
    /\ TokenTenant(<<"ta-tok">>) = {"ta"}
    /\ NamedAgent(ret.req) = {"b1"}
    /\ OwnedAgent("tb", "b1") # {}
    /\ OwnedAgent("ta", "b1") = {}
    /\ OwnedAgent("ta", "a1") # {}
    /\ ret.status = 403
    /\ ret.upstream = {}

----------------------------------------------------------------------------
(* rules: CompileRule, the matchers, Engine *)

(* A host, a domain and a domain pattern are sequences of characters.  A     *)
(* compiled regular expression is a sequence of atoms, each a character or   *)
(* "any character", starred or not; Sub says that the expression starts with *)
(* ([a-z0-9-]+\.)* .  The patterns are written with letters, digits, "-",    *)
(* "." and "*".                                                              *)

UpperToLower == ("A" :> "a") @@ ("C" :> "c") @@ ("E" :> "e") @@ ("K" :> "k") @@ ("O" :> "o")
LowerLetters == {"a", "c", "e", "k", "o", "x"}
Digits == {"0", "1", "3", "4", "8"}

\* strings.ToLower, character by character
LowerChar(c) == IF c \in DOMAIN UpperToLower THEN UpperToLower[c] ELSE c
ToLowerSeq(str) == [i \in 1..Len(str) |-> LowerChar(str[i])]

\* strings.LastIndex, counting from 1; 0 when ch is not in str
LastIndex(str, ch) ==
    LET at == {i \in 1..Len(str) : str[i] = ch}
    IN  IF at = {} THEN 0 ELSE CHOOSE i \in at : \A j \in at : j <= i

\* The atoms of an escaped literal: every character stands for itself, except
\* that "*", which escapeRegexDomain leaves alone, stars the atom before it.
\* {} when the expression does not compile (a "*" with nothing to repeat).
RECURSIVE LiteralAtoms(_, _, _)
LiteralAtoms(p, i, acc) ==
    IF i > Len(p) THEN {acc}
    ELSE IF p[i] = "*"
    THEN IF acc = <<>> \/ acc[Len(acc)].star THEN {}
         ELSE LiteralAtoms(p, i + 1, [acc EXCEPT ![Len(acc)].star = TRUE])
    ELSE LiteralAtoms(p, i + 1, Append(acc, [ch |-> p[i], any |-> FALSE, star |-> FALSE]))

\* The atoms of a pattern with a "*" inside: "*" is ".*", the rest stands for itself
GlobAtoms(p) ==
    [i \in 1..Len(p) |-> IF p[i] = "*" THEN [ch |-> "", any |-> TRUE, star |-> TRUE]
                         ELSE [ch |-> p[i], any |-> FALSE, star |-> FALSE]]

\* domainToRegex: the compiled expression, or {} when regexp.Compile fails
domainToRegex(pattern) ==
    LET p == ToLowerSeq(pattern)
    IN  IF Len(p) >= 2 /\ p[1] = "*" /\ p[2] = "."
        THEN {[Sub |-> TRUE, Atoms |-> a] : a \in LiteralAtoms(SubSeq(p, 3, Len(p)), 1, <<>>)}
        ELSE IF \E i \in 1..Len(p) : p[i] = "*"
        THEN {[Sub |-> FALSE, Atoms |-> GlobAtoms(p)]}
        ELSE {[Sub |-> FALSE, Atoms |-> a] : a \in LiteralAtoms(p, 1, <<>>)}

\* Whether atoms match the whole of str, case-insensitively
RECURSIVE AtomsMatch(_, _)
AtomsMatch(atoms, str) ==
    IF atoms = <<>> THEN str = <<>>
    ELSE LET a == Head(atoms)
             takes == str # <<>> /\ (a.any \/ LowerChar(a.ch) = LowerChar(Head(str)))
         IN  IF a.star
             THEN AtomsMatch(Tail(atoms), str) \/ (takes /\ AtomsMatch(atoms, Tail(str)))
             ELSE takes /\ AtomsMatch(Tail(atoms), Tail(str))

\* Whether str is ([a-z0-9-]+\.)* : labels, each followed by a dot
IsLabels(str) ==
    \/ str = <<>>
    \/ /\ str[Len(str)] = "."
       /\ str[1] # "."
       /\ \A i \in 1..(Len(str) - 1) : str[i] = "." => str[i + 1] # "."
       /\ \A i \in 1..Len(str) :
              str[i] # "." => LowerChar(str[i]) \in LowerLetters \cup Digits \cup {"-"}

\* regexp.MatchString of an expression anchored at both ends
MatchString(re, str) ==
    IF re.Sub
    THEN \E k \in 0..Len(str) :
            IsLabels(SubSeq(str, 1, k)) /\ AtomsMatch(re.Atoms, SubSeq(str, k + 1, Len(str)))
    ELSE AtomsMatch(re.Atoms, str)

\* globToRegex: "*" is ".*?" and every other character stands for itself (the
\* special ones are escaped), so the expression always compiles.  It is not
\* anchored.
globToRegex(pattern) == {[Sub |-> FALSE, Atoms |-> GlobAtoms(pattern)]}

\* regexp.MatchString of an expression that is not anchored: it matches
\* somewhere in str
SearchString(re, str) ==
    \E a \in 0..Len(str) : \E b \in a..Len(str) :
        AtomsMatch(re.Atoms, SubSeq(str, a + 1, b))

\* CompileRule: the compiled rule, or {} on a pattern that does not compile
CompileRule(r) ==
    LET cmd == IF r.Pattern = <<>> THEN {{}} ELSE {{re} : re \in globToRegex(r.Pattern)}
        dom == IF r.Domain = <<>> THEN {{}} ELSE {{re} : re \in domainToRegex(r.Domain)}
    IN  {[Rule |-> r, CommandMatcher |-> c, DomainMatcher |-> d] : c \in cmd, d \in dom}

\* compileRuleSet: the compiled rules in order, or {} if one does not compile
compileRuleSet(rs) ==
    IF \E i \in 1..Len(rs) : CompileRule(rs[i]) = {} THEN {}
    ELSE {[i \in 1..Len(rs) |-> CHOOSE cr \in CompileRule(rs[i]) : TRUE]}

MatchCommand(cr, cmd) ==
    /\ cr.CommandMatcher # {}
    /\ \A re \in cr.CommandMatcher : SearchString(re, cmd)

MatchDomain(cr, domain) ==
    /\ cr.DomainMatcher # {}
    /\ \A re \in cr.DomainMatcher : MatchString(re, ToLowerSeq(domain))

\* A Rule.appliesToTier that does not look at a non-empty tiers list
appliesToTier_ListIgnored(r, tier) ==
    IF tier = "commodore" /\ r.Action = "block"
    THEN \E i \in 1..Len(r.Tiers) : r.Tiers[i] = "commodore"
    ELSE TRUE

\* A Rule.appliesToTier without the commodore's exemption
appliesToTier_NoExemption(r, tier) ==
    Len(r.Tiers) = 0 \/ \E i \in 1..Len(r.Tiers) : r.Tiers[i] = tier

\* Rule.appliesToTier
appliesToTier(r, tier) ==
    LET listed(t) == \E i \in 1..Len(r.Tiers) : r.Tiers[i] = t
    IN  IF tier = "commodore" /\ r.Action = "block"
        THEN listed("commodore")
        ELSE Len(r.Tiers) = 0 \/ listed(tier)

\* The rules of cs that the loop of CheckDomainWithTier does not skip and that
\* match, by their index
DomainCandidates(cs, domain, tier) ==
    {i \in 1..Len(cs) :
        /\ cs[i].Rule.Enabled
        /\ cs[i].Rule.Domain # <<>>
        /\ ~(tier # "" /\ ~appliesToTier(cs[i].Rule, tier))
        /\ MatchDomain(cs[i], domain)}

\* The same for CheckCommandWithTier
CommandCandidates(cs, command, tier) ==
    {i \in 1..Len(cs) :
        /\ cs[i].Rule.Enabled
        /\ cs[i].Rule.Pattern # <<>>
        /\ ~(tier # "" /\ ~appliesToTier(cs[i].Rule, tier))
        /\ MatchCommand(cs[i], command)}

Candidates(domain, tier) == DomainCandidates(compiled, domain, tier)

\* (allowed, matchedRule, reason) for a rule that matched, and for none
ByRule(rule) ==
    IF rule.Action = "block"
    THEN [allowed |-> FALSE, matchedRule |-> {rule},
          reason |-> <<"blocked by rule", rule.ID>>]
    ELSE [allowed |-> TRUE, matchedRule |-> {rule},
          reason |-> <<"allowed by rule", rule.ID>>]

ByDefault ==
    IF defaultAction = "block"
    THEN [allowed |-> FALSE, matchedRule |-> {},
          reason |-> <<"blocked by default policy">>]
    ELSE [allowed |-> TRUE, matchedRule |-> {},
          reason |-> <<"allowed by default policy">>]

\* An evaluation loop in which a block rule that matches wins over the rules
\* before it
Decision_BlockWins(cs, hits) ==
    LET blocks == {i \in hits : cs[i].Rule.Action = "block"}
        from == IF blocks = {} THEN hits ELSE blocks
    IN  IF hits = {} THEN ByDefault
        ELSE ByRule(cs[CHOOSE i \in from : \A j \in from : i <= j].Rule)

\* What the evaluation loop returns: at the first rule of cs that it does not
\* skip and that matches, and after the loop
Decision(cs, hits) ==
    IF hits = {} THEN ByDefault
    ELSE ByRule(cs[CHOOSE i \in hits : \A j \in hits : i <= j].Rule)

\* Engine.CheckDomainWithTier: (allowed, matchedRule, reason)
CheckDomainWithTier(domain, tier) ==
    Decision(compiled, DomainCandidates(compiled, domain, tier))

\* Engine.CheckDomain
CheckDomain(domain) == CheckDomainWithTier(domain, "")

\* Engine.CheckCommandWithTier
CheckCommandWithTier(command, tier) ==
    Decision(compiled, CommandCandidates(compiled, command, tier))

\* Engine.CheckCommand
CheckCommand(command) == CheckCommandWithTier(command, "")

\* What the engine's other fields are when a call leaves them alone
lockVars == <<mu, loading, evals>>

\* LoadFromBytes and compileRuleSet on what was read: src is {} when nothing
\* could be read, and holds what was read otherwise, itself {} when the YAML
\* does not parse and the RuleSet it parses to otherwise
Loaded(src) ==
    LET Compiled(rs) ==
            IF compileRuleSet(rs) = {}
            THEN [err |-> "failed to compile rule", rs |-> <<>>, compiled |-> <<>>]
            ELSE [err |-> "", rs |-> rs,
                  compiled |-> CHOOSE c \in compileRuleSet(rs) : TRUE]
        Parsed(data) ==
            IF data = {}
            THEN [err |-> "failed to parse rules YAML", rs |-> <<>>, compiled |-> <<>>]
            ELSE Compiled(CHOOSE rs \in data : TRUE)
    IN  IF src = {}
        THEN [err |-> "failed to read rules file", rs |-> <<>>, compiled |-> <<>>]
        ELSE Parsed(CHOOSE data \in src : TRUE)

\* os.ReadFile
ReadFile(path) == IF path \in DOMAIN files THEN files[path] ELSE {}

\* A LoadRules that records the rules and the path before it compiles
LoadRulesCall_InstallFirst(op, path) ==
    LET res == Loaded(ReadFile(path))
        Install(data) ==
            /\ rules' = (CHOOSE rs \in data : TRUE)
            /\ rulesPath' = path
            /\ compiled' = IF res.err = "" THEN res.compiled ELSE compiled
    IN  /\ ret' = [op |-> op, err |-> res.err]
        /\ IF ReadFile(path) = {} \/ UNION ReadFile(path) = {}
           THEN UNCHANGED <<rules, compiled, rulesPath>>
           ELSE Install(UNION ReadFile(path))
        /\ UNCHANGED <<defaultAction, files, lockVars, engineFrame>>

\* Engine.LoadRules, called as op (LoadRules itself, or Reload)
LoadRulesCall(op, path) ==
    LET res == Loaded(ReadFile(path))
    IN  /\ ret' = [op |-> op, err |-> res.err]
        /\ IF res.err # ""
           THEN UNCHANGED <<rules, compiled, rulesPath>>
           ELSE /\ rules' = res.rs
                /\ compiled' = res.compiled
                /\ rulesPath' = path
        /\ UNCHANGED <<defaultAction, files, lockVars, engineFrame>>

LoadRules(path) == LoadRulesCall("LoadRules", path)

\* Engine.LoadRulesFromBytes; data is {} when the YAML does not parse, and the
\* RuleSet it parses to otherwise
LoadRulesFromBytes(data) ==
    LET res == Loaded({data})
    IN  /\ ret' = [op |-> "LoadRulesFromBytes", err |-> res.err]
        /\ IF res.err # ""
           THEN UNCHANGED <<rules, compiled>>
           ELSE /\ rules' = res.rs
                /\ compiled' = res.compiled
        /\ UNCHANGED <<defaultAction, rulesPath, files, lockVars, engineFrame>>

\* A Reload that, with no path recorded, resets the engine to no rules
Reload_Reset ==
    IF rulesPath = ""
    THEN /\ ret' = [op |-> "Reload", err |-> "no rules path set"]
         /\ rules' = <<>>
         /\ compiled' = <<>>
         /\ UNCHANGED <<rulesPath, defaultAction, files, lockVars, engineFrame>>
    ELSE LoadRulesCall("Reload", rulesPath)

\* Engine.Reload
Reload ==
    IF rulesPath = ""
    THEN /\ ret' = [op |-> "Reload", err |-> "no rules path set"]
         /\ UNCHANGED <<engineVars, engineFrame>>
    ELSE LoadRulesCall("Reload", rulesPath)

\* The rules file at path is written, removed or left as it is by its owner
WriteFile(path, content) ==
    /\ files' = [files EXCEPT ![path] = content]
    /\ ret' = NoCall
    /\ UNCHANGED <<rules, compiled, defaultAction, rulesPath, lockVars, engineFrame>>

\* A call of CheckDomainWithTier (of CheckDomain when tier is "")
CheckDomainCall(domain, tier) ==
    /\ ret' = [op |-> "CheckDomain", input |-> domain, tier |-> tier,
               result |-> CheckDomainWithTier(domain, tier)]
    /\ UNCHANGED <<engineVars, engineFrame>>

\* A call of CheckCommandWithTier (of CheckCommand when tier is "")
CheckCommandCall(command, tier) ==
    /\ ret' = [op |-> "CheckCommand", input |-> command, tier |-> tier,
               result |-> CheckCommandWithTier(command, tier)]
    /\ UNCHANGED <<engineVars, engineFrame>>

----------------------------------------------------------------------------
(* mode.Manager *)

AgentMode(agentID) ==
    IF agentID \in DOMAIN agentModes THEN agentModes[agentID] ELSE globalMode

\* A ShouldBlock that reads the global mode where it should read the agent's
ShouldBlock_GlobalOnly(agentID, ruleMatched) ==
    IF globalMode = "audit" THEN FALSE
    ELSE IF globalMode = "lockdown" THEN TRUE
    ELSE ruleMatched

ShouldBlock(agentID, ruleMatched) ==
    IF AgentMode(agentID) = "audit" THEN FALSE
    ELSE IF AgentMode(agentID) = "lockdown" THEN TRUE
    ELSE ruleMatched

\* A SetGlobalMode that drops the agents' overrides
SetGlobalMode_DropsOverrides(mode) ==
    /\ globalMode' = mode
    /\ agentModes' = <<>>
    /\ ret' = NoCall
    /\ UNCHANGED modeFrame

SetGlobalMode(mode) ==
    /\ globalMode' = mode
    /\ ret' = NoCall
    /\ UNCHANGED <<agentModes, modeFrame>>

SetAgentMode(agentID, mode) ==
    /\ agentModes' = MapSet(agentModes, agentID, mode)
    /\ ret' = NoCall
    /\ UNCHANGED <<globalMode, modeFrame>>

ClearAgentMode(agentID) ==
    /\ agentModes' = MapDelete(agentModes, agentID)
    /\ ret' = NoCall
    /\ UNCHANGED <<globalMode, modeFrame>>

\* A call of ShouldBlock
ShouldBlockCall(agentID, ruleMatched) ==
    /\ ret' = [op |-> "ShouldBlock", agent |-> agentID, ruleMatched |-> ruleMatched,
               result |-> ShouldBlock(agentID, ruleMatched)]
    /\ UNCHANGED <<globalMode, agentModes, modeFrame>>

----------------------------------------------------------------------------
(* proxy: Inspector and the forward Handler *)

\* RemoteAddr is the sequence of its ":"-separated parts: <<ip, port>>, or
\* <<ip>> when there is no port and net.SplitHostPort fails
extractClientIP(r) == r.RemoteAddr[1]

\* A validateSource that admits every source
validateSource_AdmitAll(ip) == <<"unknown", "unknown", TRUE>>

\* Handler.validateSource: (agentID, tier, valid)
validateSource(ip) ==
    IF ~registryAttached THEN <<"unknown", "unknown", TRUE>> ELSE ValidateAgentIP(ip)

\* Inspector.ExtractHost
ExtractHost(r) ==
    LET host == IF r.Host = <<>> THEN r.URLHost ELSE r.Host
        idx == LastIndex(host, ":")
        bracket == LastIndex(host, "]")
    IN  ToLowerSeq(IF idx # 0 /\ (bracket = 0 \/ bracket < idx)
                   THEN SubSeq(host, 1, idx - 1) ELSE host)

\* Inspector.ExtractAgentToken
ExtractAgentToken(r) == HeaderFirst(r.Header, "X-Agent-Token", "")

\* Inspector.CheckRequest: (shouldBlock, ruleMatched, reason), with the engine
\* call it made and the mode it decided under
CheckRequest(r) ==
    LET Decide(agentID, host, check) ==
            LET ruleMatched == ~check.allowed
                ruleID == IF check.matchedRule = {} THEN ""
                          ELSE (CHOOSE m \in check.matchedRule : TRUE).ID
            IN  [shouldBlock |-> ShouldBlock(agentID, ruleMatched),
                 ruleMatched |-> ruleMatched,
                 reason |-> IF ~ruleMatched THEN <<>>
                            ELSE IF ruleID # "" THEN <<ruleID>> \o check.reason
                            ELSE check.reason,
                 matchedRule |-> check.matchedRule,
                 evaluated |-> <<[domain |-> host, tier |-> ""]>>,
                 mode |-> AgentMode(agentID)]
    IN  Decide(ExtractAgentToken(r), ExtractHost(r), CheckDomain(ExtractHost(r)))

\* A log action that does not tell a matched rule from none
LoggedAction_NoAudit(c) == IF c.shouldBlock THEN "block" ELSE "allow"

\* The action that handleHTTP and handleConnect log
LoggedAction(c) ==
    IF c.shouldBlock THEN "block" ELSE IF c.ruleMatched THEN "audit" ELSE "allow"

\* Handler.logRequestFull
LogEntry(sourceIP, agentID, agentToken, domain, method, action, reason) ==
    [SourceIP |-> sourceIP, AgentID |-> agentID, AgentToken |-> agentToken,
     Domain |-> domain, Method |-> method, Action |-> action, Reason |-> reason]

\* copyHeaders ranges over the source header in the order of Go's map
\* iteration; the order shows only among names with one canonical name
CopyOrders(keys) ==
    Perms({k \in keys :
              \E j \in keys : j # k /\ CanonicalHeaderKey(j) = CanonicalHeaderKey(k)})

\* copyHeaders into an empty header: dst.Add(key, value) for every value
CopyHeaders(h, order) ==
    LET Vals(c) ==
            LET from == {k \in DOMAIN h : CanonicalHeaderKey(k) = c}
            IN  IF Cardinality(from) = 1 THEN h[CHOOSE k \in from : TRUE]
                ELSE Gather(h, order, c)
        names == {c \in {CanonicalHeaderKey(k) : k \in DOMAIN h} : Vals(c) # <<>>}
    IN  [c \in names |-> Vals(c)]

\* http.Header.Del
HeaderDel(h, name) == [k \in (DOMAIN h) \ {CanonicalHeaderKey(name)} |-> h[k]]

\* A handleHTTP that leaves the agent token on the outgoing request
UpstreamHeader_KeepsToken(h, order) ==
    HeaderDel(CopyHeaders(h, order), "Proxy-Connection")

\* The headers handleHTTP sends upstream: copyHeaders, then the two Del
UpstreamHeader(h, order) ==
    HeaderDel(HeaderDel(CopyHeaders(h, order), "Proxy-Connection"), "X-Agent-Token")

\* A handleConnect that dials the target before it looks at the decision
ConnectSteps_DialFirst(shouldBlock, dialOK, hijack) ==
    IF ~dialOK THEN <<"dial", "respond-502">>
    ELSE IF shouldBlock THEN <<"dial", "respond-403", "close-target">>
    ELSE IF hijack # "ok" THEN <<"dial", "respond-500", "close-target">>
    ELSE <<"dial", "hijack", "write-200", "copy">>

\* What handleConnect does after logging, in order.  hijack is "ok",
\* "unsupported" (the writer is no http.Hijacker) or "failed".
ConnectSteps(shouldBlock, dialOK, hijack) ==
    IF shouldBlock THEN <<"respond-403">>
    ELSE IF ~dialOK THEN <<"dial", "respond-502">>
    ELSE IF hijack # "ok" THEN <<"dial", "respond-500", "close-target">>
    ELSE <<"dial", "hijack", "write-200", "copy">>

\* What handleHTTP does after logging, in order.  resp is {} when client.Do fails.
HTTPSteps(shouldBlock, resp) ==
    IF shouldBlock THEN <<"respond-403">>
    ELSE IF resp = {} THEN <<"upstream", "respond-502">>
    ELSE <<"upstream", "respond-upstream">>

Has(steps, x) == \E i \in 1..Len(steps) : steps[i] = x

\* The status the client reads off the steps
StatusOf(steps, resp) ==
    IF Has(steps, "respond-403") THEN 403
    ELSE IF Has(steps, "respond-502") THEN 502
    ELSE IF Has(steps, "respond-500") THEN 500
    ELSE IF Has(steps, "write-200") THEN 200
    ELSE CHOOSE c \in resp : TRUE

\* The host handleConnect dials
TargetHost(r) == IF r.URLHost # <<>> THEN r.URLHost ELSE r.Host

\* What Handler.ServeHTTP does with request r: dialOK and hijack are how the
\* dial and the hijack go for a CONNECT, resp what the upstream answers, order
\* the order copyHeaders ranges in
ForwardResponse(r, dialOK, hijack, resp, order) ==
    LET Rejected(sourceIP) ==
            [op |-> "ServeHTTP", req |-> r, sourceIP |-> sourceIP, admitted |-> FALSE,
             agentID |-> "", tier |-> "", evaluated |-> <<>>, shouldBlock |-> FALSE,
             ruleMatched |-> FALSE, matchedRule |-> {}, mode |-> "",
             log |-> <<[SourceIP |-> sourceIP, Action |-> "reject",
                        Reason |-> "unregistered agent IP"]>>,
             steps |-> <<"respond-403">>, status |-> 403,
             upstream |-> {}, dialled |-> {}]
        \* handleHTTP or handleConnect on the request with the two headers set
        Handled(sourceIP, agentID, tier, req, c, steps) ==
            [op |-> "ServeHTTP", req |-> r, sourceIP |-> sourceIP, admitted |-> TRUE,
             agentID |-> agentID, tier |-> tier, evaluated |-> c.evaluated,
             shouldBlock |-> c.shouldBlock, ruleMatched |-> c.ruleMatched,
             matchedRule |-> c.matchedRule, mode |-> c.mode,
             log |-> <<LogEntry(sourceIP, agentID, ExtractAgentToken(req),
                                ExtractHost(req), r.Method, LoggedAction(c), c.reason)>>,
             steps |-> steps, status |-> StatusOf(steps, resp),
             upstream |-> IF Has(steps, "upstream")
                          THEN {[Method |-> r.Method, URLHost |-> r.URLHost,
                                 Header |-> UpstreamHeader(req.Header, order)]}
                          ELSE {},
             dialled |-> IF Has(steps, "dial") THEN {TargetHost(r)} ELSE {}]
        Checked(sourceIP, agentID, tier, req, c) ==
            Handled(sourceIP, agentID, tier, req, c,
                    IF r.Method = "CONNECT" THEN ConnectSteps(c.shouldBlock, dialOK, hijack)
                    ELSE HTTPSteps(c.shouldBlock, resp))
        Admitted(sourceIP, agentID, tier, req) ==
            Checked(sourceIP, agentID, tier, req, CheckRequest(req))
        Validated(sourceIP, v) ==
            IF ~v[3] THEN Rejected(sourceIP)
            ELSE Admitted(sourceIP, v[1], v[2],
                          [r EXCEPT !.Header = HeaderSet(HeaderSet(r.Header, "X-Agent-ID", v[1]),
                                                         "X-Agent-Tier", v[2])])
    IN  Validated(extractClientIP(r), validateSource(extractClientIP(r)))

\* Handler.ServeHTTP, up to its return or, for a tunnel, up to the start of
\* the two copies
ForwardServeHTTP(r, dialOK, hijack, resp, order) ==
    LET out == ForwardResponse(r, dialOK, hijack, resp, order)
    IN  /\ ret' = out
        /\ tunnels' = IF Has(out.steps, "copy")
                      THEN Append(tunnels, [st |-> "open", copied |-> {},
                                            clientClosed |-> FALSE,
                                            targetClosed |-> FALSE])
                      ELSE tunnels
        /\ UNCHANGED forwardFrame

\* One of the tunnel's two io.Copy goroutines ends and sends on done, which
\* has room for both, so the goroutine ends too
TunnelCopyEnds(i, dir) ==
    /\ dir \notin tunnels[i].copied
    /\ tunnels' = [tunnels EXCEPT ![i].copied = @ \cup {dir}]
    /\ ret' = NoCall
    /\ UNCHANGED forwardFrame

\* A handleConnect that receives from done twice before it returns
TunnelReturns_WaitBoth(i) ==
    /\ tunnels[i].st = "open"
    /\ tunnels[i].copied = {"toTarget", "toClient"}
    /\ tunnels' = [tunnels EXCEPT ![i].st = "returned", ![i].clientClosed = TRUE,
                                    ![i].targetClosed = TRUE]
    /\ ret' = NoCall
    /\ UNCHANGED forwardFrame

\* handleConnect receives once from done and returns; the deferred
\* clientConn.Close() and targetConn.Close() run
TunnelReturns(i) ==
    /\ tunnels[i].st = "open"
    /\ tunnels[i].copied # {}
    /\ tunnels' = [tunnels EXCEPT ![i].st = "returned", ![i].clientClosed = TRUE,
                                    ![i].targetClosed = TRUE]
    /\ ret' = NoCall
    /\ UNCHANGED forwardFrame

----------------------------------------------------------------------------
(* The forward proxy over a fleet, a ruleset and modes that change *)

MaxTunnels == 1

HostEvil == <<"e", ".", "c">>
HostSub == <<"a", ".", "e", ".", "c">>
HostOK == <<"o", ".", "k">>
HostUpper == <<"E", ".", "C">>
Port443 == <<":", "4", "4", "3">>

RuleAll == [ID |-> "r1", Pattern |-> <<>>, Domain |-> HostEvil, Action |-> "block",
            Tiers |-> <<>>, Enabled |-> TRUE]
RuleTiered == [ID |-> "r2", Pattern |-> <<>>, Domain |-> <<"*", ".">> \o HostEvil,
               Action |-> "block", Tiers |-> <<"crew", "captain">>, Enabled |-> TRUE]
RuleAllowSub == [ID |-> "a1", Pattern |-> <<>>, Domain |-> HostSub, Action |-> "allow",
                 Tiers |-> <<>>, Enabled |-> TRUE]
RuleGlob == [ID |-> "r3", Pattern |-> <<>>, Domain |-> <<"*", "e", "*">>,
             Action |-> "block", Tiers |-> <<"crew", "commodore">>, Enabled |-> TRUE]
RuleOff == [ID |-> "r4", Pattern |-> <<>>, Domain |-> HostOK, Action |-> "block",
            Tiers |-> <<>>, Enabled |-> FALSE]
\* "*.*" compiles to a nested repetition, which regexp.Compile refuses
RuleBad == [ID |-> "r5", Pattern |-> <<>>, Domain |-> <<"*", ".", "*">>, Action |-> "block",
            Tiers |-> <<>>, Enabled |-> TRUE]

\* What LoadRulesFromBytes is given: YAML that does not parse, a ruleset that
\* does not compile, and three that do
RuleData ==
    {{}, {<<RuleBad>>}, {<<RuleAll>>}, {<<RuleTiered>>},
     {<<RuleAllowSub, RuleGlob, RuleOff>>}}

Modes == {"enforce", "audit", "lockdown"}

AgentCrew == [ID |-> "crew-1", IP |-> "10.0.0.1", WebhookURL |-> <<>>, Tier |-> ""]
AgentCmdr == [ID |-> "cmdr", IP |-> "10.0.0.2", WebhookURL |-> <<>>, Tier |-> "commodore"]
ForwardAgents == {AgentCrew, AgentCmdr}

\* The requests sent to the forward proxy: <<RemoteAddr, Method, Host, URL.Host, Header>>
ForwardCalls ==
    {<< <<"10.0.0.1", "5000">>, "GET",     HostEvil,  HostEvil,
        ("Proxy-Connection" :> <<"keep-alive">>) @@ ("X-Agent-Token" :> <<"tok-1">>) >>,
     << <<"10.0.0.2", "5000">>, "GET",     HostEvil,  HostEvil,  ("Accept" :> <<"json">>) >>,
     << <<"10.0.0.9", "5000">>, "GET",     HostEvil,  HostEvil,  ("Accept" :> <<"json">>) >>,
     << <<"10.0.0.9", "5000">>, "CONNECT", HostOK \o Port443, HostOK \o Port443,
        ("X-Agent-Token" :> <<"crew-1">>) >>,
     << <<"10.0.0.1", "5000">>, "CONNECT", HostEvil \o Port443, HostEvil \o Port443,
        ("Accept" :> <<"json">>) >>,
     << <<"10.0.0.2", "5000">>, "CONNECT", HostSub \o Port443, HostSub \o Port443,
        ("Accept" :> <<"json">>) >>,
     << <<"10.0.0.1", "5000">>, "CONNECT", HostOK \o Port443, HostOK \o Port443,
        ("X-Agent-Token" :> <<"crew-1">>) >>,
     << <<"10.0.0.1">>,         "GET",     HostUpper, <<>>,      ("Accept" :> <<"json">>) >>,
     << <<"10.0.0.1", "5000">>, "CONNECT", HostOK \o Port443, HostEvil \o Port443,
        ("Accept" :> <<"json">>) >>,
     << <<"10.0.0.1", "5000">>, "CONNECT", HostOK \o Port443, HostOK \o Port443,
        ("X-Agent-Token" :> <<"tok-1">>) >>,
     << <<"10.0.0.1", "5000">>, "GET",     HostOK,    HostOK,
        ("x-agent-token" :> <<"tok-1">>) @@ ("PROXY-CONNECTION" :> <<"keep-alive">>)
        @@ ("Accept" :> <<"json", "xml">>) @@ ("accept" :> <<"text">>) >>,
     << <<"10.0.0.2", "5000">>, "GET",     HostOK,    HostOK,
        ("X-Agent-Id" :> <<"spoof">>) @@ ("Accept" :> <<"json">>) >>}
ForwardRequests ==
    {[RemoteAddr |-> c[1], Method |-> c[2], Host |-> c[3], URLHost |-> c[4],
      Header |-> c[5]] : c \in ForwardCalls}

\* The orders copyHeaders can range in over the header of r after ServeHTTP
\* has set its two names
ForwardOrders(r) == CopyOrders((DOMAIN r.Header) \cup {"X-Agent-Id", "X-Agent-Tier"})

\* How the dial and the hijack of a CONNECT go, and what the upstream of a
\* plain request answers
ConnectOutcomes ==
    {<<TRUE, "ok", {}>>, <<FALSE, "ok", {}>>, <<TRUE, "unsupported", {}>>,
     <<TRUE, "failed", {}>>}
HTTPOutcomes == {<<TRUE, "ok", {200}>>, <<TRUE, "ok", {}>>}
ForwardOutcomes(r) == IF r.Method = "CONNECT" THEN ConnectOutcomes ELSE HTTPOutcomes

ForwardNext ==
    \/ \E a \in ForwardAgents : AddAgent("ta", a)
    \/ \E a \in ForwardAgents : RemoveAgent("ta", a.ID)
    \/ \E data \in RuleData : LoadRulesFromBytes(data)
    \/ \E m \in Modes : SetGlobalMode(m)
    \/ SetAgentMode("crew-1", "lockdown")
    \/ ClearAgentMode("crew-1")
    \/ \E r \in ForwardRequests : \E o \in ForwardOutcomes(r) :
          \E order \in ForwardOrders(r) :
              /\ Len(tunnels) >= MaxTunnels
                    => ~Has(ForwardResponse(r, o[1], o[2], o[3], order).steps, "copy")
              /\ ForwardServeHTTP(r, o[1], o[2], o[3], order)

\* The forward proxy with and without a registry
ForwardInit == InitParts /\ registryAttached \in BOOLEAN

SpecForward == ForwardInit /\ [][ForwardNext]_vars

----------------------------------------------------------------------------
(* C3, C4, C5 *)

\* C3: with a registry attached, a request (HTTP or CONNECT) whose source IP
\* ValidateAgentIP does not resolve is answered 403, one reject record is
\* logged for it, and nothing else is done with it: the rule engine is not
\* called, no upstream request is made and no target is dialled.
C3_UnregisteredRejected ==
    (/\ ret.op = "ServeHTTP"
     /\ registryAttached
     /\ ~ValidateAgentIP(ret.req.RemoteAddr[1])[3])
    => /\ ret.status = 403
       /\ ret.log = <<[SourceIP |-> ret.req.RemoteAddr[1], Action |-> "reject",
                       Reason |-> "unregistered agent IP"]>>
       /\ ret.steps = <<"respond-403">>
       /\ ret.evaluated = <<>>
       /\ ret.upstream = {}
       /\ ret.dialled = {}

\* A CONNECT from an unregistered address is refused while an agent is registered
C3_Witness ==
    /\ ret.op = "ServeHTTP"
    /\ registryAttached
    /\ ipToAgent # <<>>
    /\ ret.req.Method = "CONNECT"
    /\ ret.req.RemoteAddr[1] \notin DOMAIN ipToAgent
    /\ ret.status = 403
    /\ ret.dialled = {}

\* C4: the forward proxy evaluates the domain rules under the tier that
\* admission resolved for the source agent, so under enforce mode a request of
\* an admitted agent is blocked on a block rule only if that rule applies to
\* the agent's tier: a block rule whose tiers leave commodore out blocks a
\* crew agent and does not block a commodore agent.
C4_TierAwareDecision ==
    (/\ ret.op = "ServeHTTP"
     /\ registryAttached
     /\ ret.admitted
     /\ ret.mode = "enforce"
     /\ ret.status = 403)
    => \A m \in ret.matchedRule : m.Action = "block" => appliesToTier(m, ret.tier)

\* A commodore agent is answered 403 on a block rule for crew and captain
C4_CommodoreBlocked ==
    /\ ret.op = "ServeHTTP"
    /\ registryAttached
    /\ ret.admitted
    /\ ret.tier = "commodore"
    /\ ret.mode = "enforce"
    /\ ret.matchedRule = {RuleTiered}
    /\ ret.status = 403

----------------------------------------------------------------------------
(* C11 *)

\* C11: every grant the store holds has expires_at > created_at, whatever
\* duration Add was called with.
C11_ExpiresAfterCreated ==
    \A id \in DOMAIN grants : grants[id].ExpiresAt > grants[id].CreatedAt

\* The state C11 fails in: Add has just returned a grant that expires at the
\* instant it was created.
C11_BornExpired ==
    /\ ret.op = "Add"
    /\ ret.grant.ID \in DOMAIN grants
    /\ ret.grant.ExpiresAt = ret.grant.CreatedAt

----------------------------------------------------------------------------
(* C12 *)

\* C12: when an accepted direct-tcpip channel's dial to the target fails, the
\* handler closes the channel and a disconnect event is on record for it.
C12_DialFailureLogged ==
    \A c \in Channels :
        (chans[c].accepted /\ ~chans[c].dialled /\ chans[c].st = "returned")
        => \E i \in 1..Len(chans[c].logged) : chans[c].logged[i] = "disconnect"

\* The state C12 fails in: the dial of an accepted channel has failed, the
\* handler has returned and it has logged nothing.
C12_DialFailedSilently ==
    \E c \in Channels :
        /\ chans[c].accepted
        /\ ~chans[c].dialled
        /\ chans[c].st = "returned"
        /\ chans[c].logged = <<>>
        /\ \A i \in 1..Len(events) : events[i].Event # "disconnect"

----------------------------------------------------------------------------
(* C13 *)

\* The bastion with its handlers scheduled fairly: a handler goroutine that
\* can take its next step takes it.  When a copy ends is up to the two peers
\* (io.Copy returns when its source closes), so nothing is assumed of it.
SpecBastionLive ==
    /\ SpecBastion
    /\ \A c \in Channels :
          /\ WF_vars(CheckGrant(c))
          /\ WF_vars(\E ok \in BOOLEAN : Accept(c, ok))
          /\ WF_vars(\E ok \in BOOLEAN : Dial(c, ok))
          /\ WF_vars(LogConnect(c))
          /\ WF_vars(SpliceReturns(c))

\* C13: once either side of a session's splice has closed, the splice ends
\* without waiting for the other direction: the handler returns, closes both
\* connections and records the session's disconnect event, so every connect
\* event is eventually followed by its disconnect event.
C13_SpliceEndsOnFirstClose ==
    \A c \in Channels :
        (chans[c].st = "splicing" /\ chans[c].copied # {})
        ~> (chans[c].st = "returned" /\ chans[c].logged = <<"connect", "disconnect">>)

\* The state C13 fails in: one copy of a session has ended, the connect event
\* is logged, and the handler waits for the other copy.
C13_WaitingForOtherCopy ==
    \E c \in Channels :
        /\ chans[c].st = "splicing"
        /\ Cardinality(chans[c].copied) = 1
        /\ chans[c].logged = <<"connect">>
        /\ ~ENABLED SpliceReturns(c)

----------------------------------------------------------------------------
(* C14 *)

\* The two copy directions of a CONNECT tunnel
CopyDirs == {"toTarget", "toClient"}

ConnectRequests == {r \in ForwardRequests : r.Method = "CONNECT"}

\* CONNECT requests and the life of the tunnels they open
TunnelNext ==
    \/ \E a \in ForwardAgents : AddAgent("ta", a)
    \/ \E m \in Modes : SetGlobalMode(m)
    \/ \E r \in ConnectRequests : \E o \in ConnectOutcomes :
          \E order \in ForwardOrders(r) :
              /\ Len(tunnels) >= MaxTunnels
                    => ~Has(ForwardResponse(r, o[1], o[2], o[3], order).steps, "copy")
              /\ ForwardServeHTTP(r, o[1], o[2], o[3], order)
    \/ \E i \in 1..Len(tunnels) : \E dir \in CopyDirs : TunnelCopyEnds(i, dir)
    \/ \E i \in 1..Len(tunnels) : TunnelReturns(i)

SpecTunnel == Init /\ [][TunnelNext]_vars

\* The handler's goroutine is scheduled: once it can return it does.  Nothing
\* makes a peer close its side, so the copies carry no fairness.
SpecTunnelLive ==
    /\ SpecTunnel
    /\ \A i \in 1..(MaxTunnels + 1) : WF_vars(i <= Len(tunnels) /\ TunnelReturns(i))

\* C14: an allowed CONNECT tunnel of which either copy direction has finished
\* terminates without waiting for the other direction, and once handleConnect
\* has returned both the client and the target connection are closed.
C14_TunnelEndsOnFirstCopy ==
    /\ \A i \in 1..(MaxTunnels + 1) :
          (i <= Len(tunnels) /\ tunnels[i].copied # {})
          ~> (i <= Len(tunnels) /\ tunnels[i].st = "returned")
    /\ [](\A i \in 1..Len(tunnels) :
            tunnels[i].st = "returned"
            => tunnels[i].clientClosed /\ tunnels[i].targetClosed)

\* a tunnel that returned, both connections closed, while one copy was still
\* running
C14_Witness ==
    \E i \in 1..Len(tunnels) :
        /\ tunnels[i].st = "returned"
        /\ Cardinality(tunnels[i].copied) = 1
        /\ tunnels[i].clientClosed /\ tunnels[i].targetClosed
----------------------------------------------------------------------------
(* The rule engine on its own: loads, reloads and evaluations *)

\* Commands and command rules
CmdBoth == <<"a", "x", "e", "c">>
CmdGlob == <<"X", "o", "E">>
CmdNone == <<"o", "k">>
RuleCmdAllow == [ID |-> "c1", Pattern |-> <<"x", "e">>, Domain |-> <<>>, Action |-> "allow",
                 Tiers |-> <<>>, Enabled |-> TRUE]
RuleCmdBlock == [ID |-> "c2", Pattern |-> <<"x", "*", "e">>, Domain |-> <<>>,
                 Action |-> "block", Tiers |-> <<"crew">>, Enabled |-> TRUE]
\* a rule with neither a pattern nor a domain
RuleInert == [ID |-> "n1", Pattern |-> <<>>, Domain |-> <<>>, Action |-> "block",
              Tiers |-> <<>>, Enabled |-> TRUE]

RulesA == <<RuleAllowSub, RuleGlob, RuleOff, RuleAll>>
RulesB == <<RuleTiered, RuleInert, RuleCmdAllow, RuleCmdBlock>>
RulesC == <<RuleAll>>
RulesD == <<RuleCmdBlock, RuleCmdAllow>>
\* the second rule does not compile
RulesBad == <<RuleAll, RuleBad>>

\* What is written to which rules file: nothing (the file is removed), YAML
\* that does not parse, rules that do not compile, and rules that do
FileWrites ==
    {<<"a.yaml", {}>>, <<"a.yaml", {{}}>>, <<"a.yaml", {{RulesBad}}>>,
     <<"a.yaml", {{RulesA}}>>, <<"a.yaml", {{RulesB}}>>,
     <<"b.yaml", {{RulesC}}>>}

\* What LoadRulesFromBytes is given
EngineData == {{}, {RulesBad}, {RulesD}}

TierNames == {"crew", "captain", "commodore"}

\* The evaluations asked for: kind, input, tier ("" for CheckDomain and
\* CheckCommand)
EngineChecks ==
    ({"domain"} \X {HostEvil, HostSub, HostUpper} \X (TierNames \cup {""}))
    \cup ({"domain"} \X {HostOK} \X {"crew"})
    \cup ({"command"} \X {CmdBoth, CmdGlob} \X (TierNames \cup {""}))
    \cup ({"command"} \X {CmdNone} \X {"crew"})

EngineNext ==
    \/ \E w \in FileWrites : WriteFile(w[1], w[2])
    \/ \E path \in Paths : LoadRules(path)
    \/ \E data \in EngineData : LoadRulesFromBytes(data)
    \/ Reload
    \/ \E c \in EngineChecks : c[1] = "domain" /\ CheckDomainCall(c[2], c[3])
    \/ \E c \in EngineChecks : c[1] = "command" /\ CheckCommandCall(c[2], c[3])

\* NewEngine() and NewEngine(WithDefaultAction("block"))
EngineOnlyInit ==
    /\ StoreInit
    /\ ret = NoCall
    /\ BastionInit
    /\ FleetInit
    /\ ReverseInit
    /\ ApiInit
    /\ \E action \in {"allow", "block"} : NewEngine(action)
    /\ ModeInit
    /\ registryAttached = TRUE
    /\ tunnels = <<>>

SpecEngine == EngineOnlyInit /\ [][EngineNext]_vars
----------------------------------------------------------------------------
(* C16, C17 *)

\* What the engine answers to an evaluation of EngineChecks
Evaluate(c) ==
    IF c[1] = "domain" THEN CheckDomainWithTier(c[2], c[3])
    ELSE CheckCommandWithTier(c[2], c[3])

LoadOps == {"LoadRules", "LoadRulesFromBytes", "Reload"}

\* C16: a LoadRules, LoadRulesFromBytes or Reload that returns an error (the
\* file cannot be read, the YAML does not parse, a rule does not compile)
\* leaves the rules, the compiled matchers and the recorded path as they were,
\* and every evaluation answers after it what it answered before it.
C16_LoadAllOrNothing ==
    [][(ret'.op \in LoadOps /\ ret'.err # "")
       => /\ UNCHANGED <<rules, compiled, rulesPath>>
          /\ \A c \in EngineChecks : Evaluate(c)' = Evaluate(c)]_vars

\* a load that failed at the second rule's pattern, on an engine that holds
\* rules and a path
C16_Witness ==
    /\ ret.op \in LoadOps
    /\ ret.err = "failed to compile rule"
    /\ rules # <<>>
    /\ rulesPath # ""

\* C17: Reload with no path recorded returns an error and changes nothing; a
\* Reload that succeeds installs what the file at the recorded path holds and
\* keeps the path; and a Reload that follows a successful LoadRules or Reload,
\* the file not written in between, succeeds and leaves the rules, the rule
\* count and the answer to every evaluation as they were.
C17_ReloadRepeatsLoad ==
    [][ret'.op = "Reload"
       => /\ rulesPath = ""
               => ret'.err # "" /\ UNCHANGED <<rules, compiled, rulesPath>>
          /\ ret'.err = ""
               => /\ rulesPath' = rulesPath
                  /\ {rules'} = UNION ReadFile(rulesPath)
          /\ (ret.op \in {"LoadRules", "Reload"} /\ ret.err = "")
               => /\ ret'.err = ""
                  /\ UNCHANGED <<rules, compiled, rulesPath>>
                  /\ Len(compiled') = Len(compiled)
                  /\ \A c \in EngineChecks : Evaluate(c)' = Evaluate(c)]_vars

\* a Reload that succeeded on an engine loaded from a.yaml
C17_Witness ==
    /\ ret.op = "Reload"
    /\ ret.err = ""
    /\ rulesPath = "a.yaml"
    /\ rules = RulesB
----------------------------------------------------------------------------
(* C18, C19, C20 *)

CheckOps == {"CheckDomain", "CheckCommand"}

\* Whether the i-th rule, in the order the ruleset declares them, is enabled,
\* applies to the tier of the last evaluation and matches its input
Hit(i) ==
    /\ compiled[i].Rule = rules[i]
    /\ rules[i].Enabled
    /\ ret.tier = "" \/ appliesToTier(rules[i], ret.tier)
    /\ IF ret.op = "CheckDomain" THEN MatchDomain(compiled[i], ret.input)
       ELSE MatchCommand(compiled[i], ret.input)

\* C18: an evaluation returns the first rule in declared order that is enabled,
\* applies to the tier and matches the domain (the command), allowed unless
\* that rule is a block rule, whatever the rules after it say; when there is
\* no such rule it returns no rule and the engine's default action.
C18_FirstMatchWins ==
    ret.op \in CheckOps =>
        IF \A i \in 1..Len(rules) : ~Hit(i)
        THEN /\ ret.result.matchedRule = {}
             /\ ret.result.allowed = (defaultAction # "block")
        ELSE \E i \in 1..Len(rules) :
                /\ Hit(i)
                /\ \A j \in 1..(i - 1) : ~Hit(j)
                /\ ret.result.matchedRule = {rules[i]}
                /\ ret.result.allowed = (rules[i].Action = "allow")
                /\ ~ret.result.allowed = (rules[i].Action = "block")

\* an evaluation allowed by an allow rule that comes before a block rule with
\* the same match
C18_Witness ==
    /\ ret.op \in CheckOps
    /\ ret.result.allowed
    /\ \E i, j \in 1..Len(rules) :
          /\ i < j
          /\ Hit(i) /\ rules[i].Action = "allow"
          /\ Hit(j) /\ rules[j].Action = "block"

\* The evaluation of the last call, on the compiled rules cs
EvalOn(cs) ==
    IF ret.op = "CheckDomain"
    THEN Decision(cs, DomainCandidates(cs, ret.input, ret.tier))
    ELSE Decision(cs, CommandCandidates(cs, ret.input, ret.tier))

\* The compiled rules with the i-th removed
Without(i) == SubSeq(compiled, 1, i - 1) \o SubSeq(compiled, i + 1, Len(compiled))

Lists(rule, tier) == \E k \in 1..Len(rule.Tiers) : rule.Tiers[k] = tier

\* Whether the i-th rule is enabled and its pattern matches the last call's input
Matches(i) ==
    /\ rules[i].Enabled
    /\ IF ret.op = "CheckDomain" THEN MatchDomain(compiled[i], ret.input)
       ELSE MatchCommand(compiled[i], ret.input)

\* C19: an evaluation for a tier T (a tier name: with the empty string the
\* engine skips tier filtering) returns, for every rule whose tiers list is
\* not empty and does not name T, what it returns on the ruleset without
\* that rule.
C19_UnlistedTierUnaffected ==
    (ret.op \in CheckOps /\ ret.tier # "") =>
        \A i \in 1..Len(rules) :
            (Len(rules[i].Tiers) > 0 /\ ~Lists(rules[i], ret.tier))
            => ret.result = EvalOn(Without(i))

\* an evaluation for a tier that a rule does not name, where that rule is
\* enabled, matches and comes before every other rule that matches
C19_Witness ==
    /\ ret.op \in CheckOps
    /\ ret.tier # ""
    /\ \E i \in 1..Len(rules) :
          /\ Len(rules[i].Tiers) > 0 /\ ~Lists(rules[i], ret.tier)
          /\ Matches(i)
          /\ \A j \in 1..(i - 1) : ~Matches(j)
          /\ ret.result.matchedRule # {}

\* C20: an evaluation for tier "commodore" returns, for every block rule with
\* an empty tiers list, what it returns on the ruleset without that rule; a
\* block rule that names "commodore" and is the first enabled rule to match
\* blocks it; and an allow rule with an empty tiers list that is the first
\* enabled rule to match allows the call, for "commodore" as for every tier.
C20_CommodoreExemption ==
    (ret.op \in CheckOps /\ ret.tier # "") =>
        \A i \in 1..Len(rules) :
            LET first == Matches(i) /\ \A j \in 1..(i - 1) : ~Matches(j)
                r == rules[i]
            IN  /\ (ret.tier = "commodore" /\ r.Action = "block" /\ r.Tiers = <<>>)
                      => ret.result = EvalOn(Without(i))
                /\ (ret.tier = "commodore" /\ r.Action = "block"
                        /\ Lists(r, "commodore") /\ first)
                      => ~ret.result.allowed /\ ret.result.matchedRule = {r}
                /\ (r.Action = "allow" /\ r.Tiers = <<>> /\ first)
                      => ret.result.allowed /\ ret.result.matchedRule = {r}

\* an evaluation for "commodore" that a block rule with no tiers matches and
\* does not decide
C20_Witness ==
    /\ ret.op \in CheckOps
    /\ ret.tier = "commodore"
    /\ \E i \in 1..Len(rules) :
          /\ rules[i].Action = "block" /\ rules[i].Tiers = <<>>
          /\ Matches(i)
          /\ \A j \in 1..(i - 1) : ~Matches(j)
          /\ ret.result.matchedRule # {rules[i]}
----------------------------------------------------------------------------
(* The engine's lock, step by step: loads and evaluations in separate threads *)

\* What a step of a load leaves alone, loading and ret apart
loadFrame == <<defaultAction, files, evals, engineFrame>>

\* LoadRules(path) is called
LoadRulesStart(l, path) ==
    /\ loading[l].pc = "idle"
    /\ loading' = [loading EXCEPT ![l] = [pc |-> "path", op |-> "LoadRules", path |-> path]]
    /\ ret' = NoCall
    /\ UNCHANGED <<rules, compiled, rulesPath, mu, loadFrame>>

\* Reload reads the recorded path under the read lock, and gives up or calls
\* LoadRules
ReloadStart(l) ==
    /\ loading[l].pc = "idle"
    /\ ~mu.writer
    /\ IF rulesPath = ""
       THEN /\ ret' = [op |-> "Reload", err |-> "no rules path set"]
            /\ UNCHANGED loading
       ELSE /\ ret' = NoCall
            /\ loading' = [loading EXCEPT
                             ![l] = [pc |-> "path", op |-> "Reload", path |-> rulesPath]]
    /\ UNCHANGED <<rules, compiled, rulesPath, mu, loadFrame>>

\* What a load holds once it has read, parsed and compiled
Pending(op, path, res) ==
    [pc |-> "compiled", op |-> op, path |-> path, rs |-> res.rs, compiled |-> res.compiled]

\* LoadRules reads the file, parses it and compiles the rules; on an error it
\* returns
LoadCompile(l) ==
    /\ loading[l].pc = "path"
    /\ LET res == Loaded(ReadFile(loading[l].path))
       IN  IF res.err # ""
           THEN /\ ret' = [op |-> loading[l].op, err |-> res.err]
                /\ loading' = [loading EXCEPT ![l] = Idle]
           ELSE /\ ret' = NoCall
                /\ loading' = [loading EXCEPT
                                 ![l] = Pending(loading[l].op, loading[l].path, res)]
    /\ UNCHANGED <<rules, compiled, rulesPath, mu, loadFrame>>

\* LoadRulesFromBytes(data) is called, parses and compiles; on an error it
\* returns
LoadBytesCompile(l, data) ==
    /\ loading[l].pc = "idle"
    /\ LET res == Loaded({data})
       IN  IF res.err # ""
           THEN /\ ret' = [op |-> "LoadRulesFromBytes", err |-> res.err]
                /\ UNCHANGED loading
           ELSE /\ ret' = NoCall
                /\ loading' = [loading EXCEPT
                                 ![l] = Pending("LoadRulesFromBytes", "", res)]
    /\ UNCHANGED <<rules, compiled, rulesPath, mu, loadFrame>>

\* A load that takes the lock while evaluations hold it for reading
LoadLock_NoWait(l) ==
    /\ loading[l].pc = "compiled"
    /\ ~mu.writer
    /\ mu' = [mu EXCEPT !.writer = TRUE]
    /\ loading' = [loading EXCEPT ![l].pc = "locked"]
    /\ ret' = NoCall
    /\ UNCHANGED <<rules, compiled, rulesPath, loadFrame>>

\* e.mu.Lock()
LoadLock(l) ==
    /\ loading[l].pc = "compiled"
    /\ ~mu.writer
    /\ mu.readers = {}
    /\ mu' = [mu EXCEPT !.writer = TRUE]
    /\ loading' = [loading EXCEPT ![l].pc = "locked"]
    /\ ret' = NoCall
    /\ UNCHANGED <<rules, compiled, rulesPath, loadFrame>>

\* e.rules = rs
LoadSetRules(l) ==
    /\ loading[l].pc = "locked"
    /\ rules' = loading[l].rs
    /\ loading' = [loading EXCEPT ![l].pc = "rules"]
    /\ ret' = NoCall
    /\ UNCHANGED <<compiled, rulesPath, mu, loadFrame>>

\* e.compiled = compiled
LoadSetCompiled(l) ==
    /\ loading[l].pc = "rules"
    /\ compiled' = loading[l].compiled
    /\ loading' = [loading EXCEPT ![l].pc = "matchers"]
    /\ ret' = NoCall
    /\ UNCHANGED <<rules, rulesPath, mu, loadFrame>>

\* e.rulesPath = path (not in LoadRulesFromBytes), e.mu.Unlock() and the return
LoadUnlock(l) ==
    /\ loading[l].pc = "matchers"
    /\ rulesPath' = IF loading[l].op = "LoadRulesFromBytes" THEN rulesPath
                    ELSE loading[l].path
    /\ mu' = [mu EXCEPT !.writer = FALSE]
    /\ loading' = [loading EXCEPT ![l] = Idle]
    /\ ret' = [op |-> loading[l].op, err |-> ""]
    /\ UNCHANGED <<rules, compiled, loadFrame>>

\* What a step of an evaluation leaves alone, evals, mu and ret apart
evalFrame == <<rules, compiled, defaultAction, rulesPath, files, loading, engineFrame>>

\* e.mu.RLock() of an evaluation c = (kind, input, tier); seen is what the
\* evaluation finds in the engine, step after step
EvalRLock(p, c) ==
    /\ evals[p].pc = "idle"
    /\ ~mu.writer
    /\ mu' = [mu EXCEPT !.readers = @ \cup {p}]
    /\ evals' = [evals EXCEPT ![p] = [pc |-> "locked", call |-> c, i |-> 1,
                                      seen |-> {<<rules, compiled>>}]]
    /\ ret' = NoCall
    /\ UNCHANGED evalFrame

\* Whether the loop of evaluation p returns at its current rule
AtHit(p) ==
    LET call == evals[p].call
        Skipped(cr) ==
            \/ ~cr.Rule.Enabled
            \/ call[3] # "" /\ ~appliesToTier(cr.Rule, call[3])
        Matched(cr) ==
            IF call[1] = "domain"
            THEN cr.Rule.Domain # <<>> /\ MatchDomain(cr, call[2])
            ELSE cr.Rule.Pattern # <<>> /\ MatchCommand(cr, call[2])
        Returns(cr) == ~Skipped(cr) /\ Matched(cr)
    IN  evals[p].i <= Len(compiled) /\ Returns(compiled[evals[p].i])

\* One pass of the loop over e.compiled that does not return
EvalStep(p) ==
    /\ evals[p].pc = "locked"
    /\ IF AtHit(p) THEN FALSE ELSE evals[p].i <= Len(compiled)
    /\ evals' = [evals EXCEPT ![p].i = @ + 1, ![p].seen = @ \cup {<<rules, compiled>>}]
    /\ ret' = NoCall
    /\ UNCHANGED <<mu, evalFrame>>

\* The evaluation returns, at the rule that matches or after the loop; the
\* deferred e.mu.RUnlock() runs
EvalReturn(p) ==
    /\ evals[p].pc = "locked"
    /\ IF AtHit(p) THEN TRUE ELSE evals[p].i > Len(compiled)
    /\ ret' = [op |-> IF evals[p].call[1] = "domain" THEN "CheckDomain" ELSE "CheckCommand",
               input |-> evals[p].call[2], tier |-> evals[p].call[3],
               result |-> IF AtHit(p) THEN ByRule(compiled[evals[p].i].Rule) ELSE ByDefault]
    /\ mu' = [mu EXCEPT !.readers = @ \ {p}]
    /\ evals' = [evals EXCEPT ![p] = Idle]
    /\ UNCHANGED evalFrame

\* The evaluation that each evaluating thread repeats
EvalCalls == ("e1" :> <<"domain", HostEvil, "crew">>) @@ ("e2" :> <<"command", CmdBoth, "">>)

\* What the loading thread loads from bytes
ConcData == {{}, {RulesD}}

ConcNext ==
    \/ \E l \in Loaders : \E path \in Paths : LoadRulesStart(l, path)
    \/ \E l \in Loaders : ReloadStart(l)
    \/ \E l \in Loaders : LoadCompile(l)
    \/ \E l \in Loaders : \E data \in ConcData : LoadBytesCompile(l, data)
    \/ \E l \in Loaders : LoadLock(l)
    \/ \E l \in Loaders : LoadSetRules(l)
    \/ \E l \in Loaders : LoadSetCompiled(l)
    \/ \E l \in Loaders : LoadUnlock(l)
    \/ \E p \in Evaluators : EvalRLock(p, EvalCalls[p])
    \/ \E p \in Evaluators : EvalStep(p)
    \/ \E p \in Evaluators : EvalReturn(p)

\* An engine whose rules files are there: a.yaml holds rules that compile,
\* b.yaml rules that do not
ConcInit ==
    /\ StoreInit
    /\ ret = NoCall
    /\ BastionInit
    /\ FleetInit
    /\ ReverseInit
    /\ ApiInit
    /\ rules = <<>>
    /\ compiled = <<>>
    /\ defaultAction = "allow"
    /\ rulesPath = ""
    /\ files = ("a.yaml" :> {{RulesB}}) @@ ("b.yaml" :> {{RulesBad}})
    /\ mu = [writer |-> FALSE, readers |-> {}]
    /\ loading = [l \in Loaders |-> Idle]
    /\ evals = [p \in Evaluators |-> Idle]
    /\ ModeInit
    /\ registryAttached = TRUE
    /\ tunnels = <<>>

SpecEngineConc == ConcInit /\ [][ConcNext]_vars

(* C15 *)

\* C15: an evaluation, from its RLock to its return and whatever loads and
\* reloads run meanwhile, finds one ruleset in the engine: the same rule list
\* and the same compiled matchers at every step, the matchers being those
\* compiled from that rule list.
C15_OneGeneration ==
    \A p \in Evaluators :
        evals[p].pc = "locked" =>
            /\ evals[p].seen = {<<rules, compiled>>}
            /\ compiled \in compileRuleSet(rules)

\* an evaluation half way through rules that were loaded, while a load that
\* has compiled other rules waits for the lock
C15_Witness ==
    \E p \in Evaluators : \E l \in Loaders :
        /\ evals[p].pc = "locked"
        /\ evals[p].i > 1
        /\ loading[l].pc = "compiled"
        /\ loading[l].rs # rules
----------------------------------------------------------------------------
(* The mode manager on its own.  C21, C22 *)

ModeAgents == {"a1", "a2"}

ModeNext ==
    \/ \E m \in Modes : SetGlobalMode(m)
    \/ \E a \in ModeAgents : \E m \in Modes : SetAgentMode(a, m)
    \/ \E a \in ModeAgents : ClearAgentMode(a)
    \/ \E a \in ModeAgents : \E matched \in BOOLEAN : ShouldBlockCall(a, matched)

SpecMode == Init /\ [][ModeNext]_vars

\* The mode in force for the agent of the last call: its override, or the
\* global mode when it has none
ModeInForce ==
    IF \E a \in DOMAIN agentModes : a = ret.agent THEN agentModes[ret.agent]
    ELSE globalMode

\* C21: ShouldBlock(a, false) is false when the mode in force for a is enforce
\* or audit and true when it is lockdown; ShouldBlock(a, true) is true under
\* enforce and lockdown and false under audit.
C21_ShouldBlockTable ==
    ret.op = "ShouldBlock" =>
        /\ ModeInForce = "enforce" => ret.result = ret.ruleMatched
        /\ ModeInForce = "audit" => ret.result = FALSE
        /\ ModeInForce = "lockdown" => ret.result = TRUE

\* an agent in lockdown under a global audit mode, blocked though no rule
\* matched
C21_Witness ==
    /\ ret.op = "ShouldBlock"
    /\ ~ret.ruleMatched
    /\ ret.result
    /\ globalMode = "audit"
    /\ ModeInForce = "lockdown"

\* C22: SetGlobalMode(m) leaves the effective mode of every agent with an
\* override as it was and makes it m for the others; SetAgentMode(b, m) makes
\* the effective mode of b m and changes no other agent's; ClearAgentMode(b)
\* makes b follow the global mode and changes no other agent's.
C22_EffectiveMode ==
    [][\A a \in ModeAgents :
          /\ \A m \in Modes :
                SetGlobalMode(m)
                => AgentMode(a)' = IF a \in DOMAIN agentModes THEN AgentMode(a) ELSE m
          /\ \A b \in ModeAgents : \A m \in Modes :
                SetAgentMode(b, m)
                => AgentMode(a)' = IF a = b THEN m ELSE AgentMode(a)
          /\ \A b \in ModeAgents :
                ClearAgentMode(b)
                => AgentMode(a)' = IF a = b THEN globalMode' ELSE AgentMode(a)]_vars

\* one agent keeps its override while the global mode is another, the other
\* agent follows the global mode
C22_Witness ==
    /\ "a1" \in DOMAIN agentModes
    /\ agentModes["a1"] = "audit"
    /\ globalMode = "lockdown"
    /\ AgentMode("a1") = "audit"
    /\ "a2" \notin DOMAIN agentModes
    /\ AgentMode("a2") = "lockdown"
----------------------------------------------------------------------------
(* The fleet registry on its own *)

\* An agent, the same agent with another IP and tier, and a second agent that
\* is given the first one's IP
RegA1 == [ID |-> "a1", IP |-> "10.0.0.1", WebhookURL |-> <<>>, Tier |-> "crew"]
RegA1Moved == [ID |-> "a1", IP |-> "10.0.0.2", WebhookURL |-> <<>>, Tier |-> "captain"]
RegB1 == [ID |-> "b1", IP |-> "10.0.0.1", WebhookURL |-> <<>>, Tier |-> ""]

\* The AddAgent calls made
RegistryAdds == {<<"ta", RegA1>>, <<"tb", RegA1>>, <<"ta", RegA1Moved>>, <<"ta", RegB1>>}
RegistryAgents == {"a1", "b1"}
RegistryIPs == {"10.0.0.1", "10.0.0.2"}
FleetModes == {"isolated", "fleet"}

RegistryNext ==
    \/ \E t \in TenantIDs : CreateTenant(t)
    \/ \E t \in TenantIDs : \E m \in FleetModes : SetMode(t, m)
    \/ \E x \in RegistryAdds : AddAgent(x[1], x[2])
    \/ \E t \in TenantIDs : \E a \in RegistryAgents : RemoveAgent(t, a)
    \/ \E t \in TenantIDs : GetAgentsCall(t)
    \/ \E a \in RegistryAgents : GetAgentsForAgentCall(a)
    \/ \E a \in RegistryAgents : \E b \in RegistryAgents : CanCommunicateCall(a, b)
    \/ \E ip \in RegistryIPs : ValidateAgentIPCall(ip)

SpecRegistry == Init /\ [][RegistryNext]_vars

(* C23 .. C27 *)

\* The tenants whose agent mapping holds the agent id
TenantsHolding(agentID) ==
    {t \in DOMAIN tenants : agentID \in DOMAIN tenants[t].Agents}

\* The Agent entries, each with its tenant, that carry the IP
EntriesWithIP(ip) ==
    {<<t, a>> \in (DOMAIN tenants) \X RegistryAgents :
        a \in DOMAIN tenants[t].Agents /\ tenants[t].Agents[a].IP = ip}

\* C23: every agent id is in the agent mapping of at most one tenant, and
\* every IP is in at most one Agent entry.
C23_UniqueAgentAndIP ==
    /\ \A a \in RegistryAgents : Cardinality(TenantsHolding(a)) <= 1
    /\ \A ip \in RegistryIPs : Cardinality(EntriesWithIP(ip)) <= 1

\* an agent id held by two tenants, and an IP carried by two agents
C23_Duplicates ==
    /\ Cardinality(TenantsHolding("a1")) = 2
    /\ Cardinality(EntriesWithIP("10.0.0.1")) >= 2

\* C24: the agent-to-tenant index maps a to t exactly when tenant t's agent
\* mapping holds a, and the ip index has an entry for ip exactly when a
\* registered agent has that IP, the entry carrying that agent's id and tier.
C24_IndicesConsistent ==
    /\ \A a \in RegistryAgents : \A t \in TenantIDs :
          (a \in DOMAIN agentToTenant /\ agentToTenant[a] = t)
          <=> (t \in TenantsHolding(a))
    /\ \A ip \in RegistryIPs :
          /\ ip \in DOMAIN ipToAgent <=> EntriesWithIP(ip) # {}
          /\ ip \in DOMAIN ipToAgent =>
                \A e \in EntriesWithIP(ip) :
                    /\ ipToAgent[ip].ID = tenants[e[1]].Agents[e[2]].ID
                    /\ ipToAgent[ip].Tier = tenants[e[1]].Agents[e[2]].Tier

\* ValidateAgentIP accepts an IP that no registered agent has
C24_StaleIPAccepted ==
    /\ ret.op = "ValidateAgentIP"
    /\ ret.result[3]
    /\ EntriesWithIP(ret.ip) = {}

\* C25, as stated: the result of GetAgents(t) is empty exactly when t is
\* isolated or unknown.
C25_EmptyIffIsolatedOrUnknown ==
    ret.op = "GetAgents" =>
        (ret.result.agents = {}
         <=> (ret.tenant \notin DOMAIN tenants \/ tenants[ret.tenant].Mode = "isolated"))

\* C25, amended: GetAgents(t) returns no agent when t is isolated or unknown
\* and all of t's agents when t is in fleet mode, so that its result is empty
\* exactly when t is isolated, unknown or without agents.
C25_GetAgents ==
    ret.op = "GetAgents" =>
        /\ (ret.tenant \notin DOMAIN tenants) => ret.result.agents = {}
        /\ (ret.tenant \in DOMAIN tenants) =>
              /\ tenants[ret.tenant].Mode = "isolated" => ret.result.agents = {}
              /\ tenants[ret.tenant].Mode = "fleet" =>
                    ret.result.agents =
                        {tenants[ret.tenant].Agents[a] : a \in DOMAIN tenants[ret.tenant].Agents}
              /\ ret.result.agents = {}
                    <=> \/ tenants[ret.tenant].Mode = "isolated"
                        \/ DOMAIN tenants[ret.tenant].Agents = {}

\* the two agents of a tenant in fleet mode returned
C25_Witness ==
    /\ ret.op = "GetAgents"
    /\ ret.tenant \in DOMAIN tenants
    /\ tenants[ret.tenant].Mode = "fleet"
    /\ Cardinality(ret.result.agents) = 2

\* C26: GetAgentsForAgent(a) returns, without a in it: the other agents of
\* a's tenant when that tenant is in fleet mode, and nothing when the tenant
\* is isolated or no tenant holds a.
C26_OthersOfOwnTenant ==
    ret.op = "GetAgentsForAgent" =>
        /\ ~ret.result.panic
        /\ \A x \in ret.result.agents : x.ID # ret.agent
        /\ \A t \in TenantsHolding(ret.agent) :
              tenants[t].Mode = "fleet" =>
                  ret.result.agents =
                      {tenants[t].Agents[b] : b \in DOMAIN tenants[t].Agents \ {ret.agent}}
        /\ (\A t \in TenantsHolding(ret.agent) : tenants[t].Mode = "isolated")
              => ret.result.agents = {}

\* GetAgentsForAgent panics: the index names a tenant that holds no agent
C26_Panics ==
    /\ ret.op = "GetAgentsForAgent"
    /\ ret.result.panic
    /\ TenantsHolding(ret.agent) = {}

\* C27: CanCommunicate(a, b) is true exactly when some tenant in fleet mode
\* holds both a and b.
C27_SameFleetTenant ==
    ret.op = "CanCommunicate" =>
        (ret.result
         <=> \E t \in TenantsHolding(ret.from) \cap TenantsHolding(ret.to) :
                tenants[t].Mode = "fleet")

\* two agents of one tenant in fleet mode that may not communicate
C27_FleetMatesRefused ==
    /\ ret.op = "CanCommunicate"
    /\ ~ret.result
    /\ \E t \in TenantsHolding(ret.from) \cap TenantsHolding(ret.to) :
          tenants[t].Mode = "fleet"

----------------------------------------------------------------------------
(* The reverse proxy's identity masking *)

CaptainNames == {"", "Captain Test"}

\* What a client sends besides its Authorization header: each name the proxy
\* is to strip, names in other cases than the canonical one, names it is to
\* pass on, and X-Captain values of the client's own
StrippedNames ==
    {"Connection", "Keep-Alive", "Proxy-Authenticate", "Proxy-Authorization",
     "Te", "Trailers", "Transfer-Encoding", "Upgrade", "X-Forwarded-For",
     "X-Real-Ip", "X-Originating-Ip", "X-Remote-Ip", "X-Remote-Addr",
     "X-Client-Ip", "X-Agent-Id", "X-Source-Agent",
     "connection", "TE", "X-Real-IP", "x-real-ip", "X-SOURCE-AGENT"}
MaskExtras ==
    {(n :> <<"v">>) : n \in StrippedNames} \cup
    {<<>>,
     ("Accept" :> <<"json">>) @@ ("X-Request-Id" :> <<"r1">>),
     ("Accept" :> <<"json", "xml">>) @@ ("accept" :> <<"text">>),
     ("X-Agent-Id" :> <<"fleet-command">>) @@ ("X-Forwarded-For" :> <<"1.2.3.4", "5.6.7.8">>),
     ("X-Captain" :> <<"Mallory">>),
     ("X-Captain" :> <<"Mallory", "Eve">>),
     ("X-CAPTAIN" :> <<"Mallory">>),
     ("x-captain" :> <<"Mallory">>) @@ ("X-Captain" :> <<"Eve">>)}
\* ta's client sends each of them to a1; tb's client sends its own X-Captain to b1
MaskCalls ==
    {<<"ta-tok", "a1", x>> : x \in MaskExtras} \cup
    {<<"tb-tok", "b1", ("X-Captain" :> <<"Mallory">>)>>}
MaskRequests ==
    {[Method |-> "GET", Path |-> <<"", "agent", c[2], "status">>, RawQuery |-> "",
      Header |-> ("Authorization" :> << <<"Bearer", c[1]>> >>) @@ c[3]] :
        c \in MaskCalls}

MaskNext ==
    \/ CreateTenant("ta")
    \/ \E n \in CaptainNames : SetCaptainName("ta", n)
    \/ AddAgent("ta", AgentA1)
    \/ AddAgent("tb", AgentB1)
    \/ RemoveAgent("ta", "a1")
    \/ RegisterToken(<<"ta-tok">>, "ta")
    \/ RegisterToken(<<"tb-tok">>, "tb")
    \/ \E r \in MaskRequests, resp \in UpstreamAnswers : ReverseServeHTTP(r, resp)

SpecMask == Init /\ [][MaskNext]_vars

----------------------------------------------------------------------------
(* C28 *)

C28_Stripped ==
    {"authorization", "connection", "keep-alive", "proxy-authenticate",
     "proxy-authorization", "te", "trailers", "transfer-encoding", "upgrade",
     "x-forwarded-for", "x-real-ip", "x-originating-ip", "x-remote-ip",
     "x-remote-addr", "x-client-ip", "x-agent-id", "x-source-agent"}

\* C28: the request the reverse proxy sends to an agent's endpoint has no
\* header whose name is, letter case apart, one of Authorization, Connection,
\* Keep-Alive, Proxy-Authenticate, Proxy-Authorization, TE, Trailers,
\* Transfer-Encoding, Upgrade, X-Forwarded-For, X-Real-Ip, X-Originating-Ip,
\* X-Remote-Ip, X-Remote-Addr, X-Client-Ip, X-Agent-Id, X-Source-Agent,
\* whatever headers the client sent.
C28_NoStrippedHeaderForwarded ==
    ret.op = "ReverseServeHTTP" =>
        \A out \in ret.upstream :
            \A k \in DOMAIN out.Header : ToLower(k) \notin C28_Stripped

\* A request that has X-SOURCE-AGENT in capitals is forwarded
C28_Witness ==
    /\ ret.op = "ReverseServeHTTP"
    /\ ret.upstream # {}
    /\ "X-SOURCE-AGENT" \in DOMAIN ret.req.Header
    /\ "Authorization" \in DOMAIN ret.req.Header

----------------------------------------------------------------------------
(* C29 *)

\* C29: every request the reverse proxy forwards has exactly one X-Captain
\* value, under one name: the captain display name of the tenant the bearer
\* token belongs to if that name is set, the tenant's id if not, whatever
\* X-Captain headers the client sent.
C29_OneCaptainValue ==
    ret.op = "ReverseServeHTTP" =>
        \A out \in ret.upstream :
            LET t == tokens[ret.token]
                name == tenants[t].CaptainName
            IN  /\ {k \in DOMAIN out.Header : ToLower(k) = "x-captain"} = {"X-Captain"}
                /\ out.Header["X-Captain"] = <<IF name # "" THEN name ELSE t>>

\* The client sent X-Captain under two names, the tenant's captain is set
C29_Witness ==
    /\ ret.op = "ReverseServeHTTP"
    /\ ret.upstream # {}
    /\ {"x-captain", "X-Captain"} \subseteq DOMAIN ret.req.Header
    /\ tenants[tokens[ret.token]].CaptainName = "Captain Test"

----------------------------------------------------------------------------
(* C30 *)

\* C30: what the reverse proxy answers to a caller authenticated as tenant T
\* that asks for an agent id T's agent mapping does not have is decided by T
\* alone, so it is the same whether or not another tenant has an agent of
\* that id: status 403, no call to any endpoint, and the body "agent not in
\* your fleet" when T is a tenant of the registry, "tenant not found" when
\* it is not.
C30_NoCrossTenantLeak ==
    ret.op = "ReverseServeHTTP" =>
        LET r == ret.req
            auth == HeaderFirst(r.Header, "Authorization", <<"">>)
            bearer == IF Len(auth) = 2 /\ auth[1] \in {"Bearer", "bearer"}
                      THEN {<<auth[2]>>} ELSE {}
        IN  \A k \in bearer : \A t \in TokenTenant(k) : \A a \in NamedAgent(r) :
                OwnedAgent(t, a) = {} =>
                    /\ ret.status = 403
                    /\ ret.upstream = {}
                    /\ ret.error = IF t \in DOMAIN tenants
                                   THEN "Forbidden: agent not in your fleet"
                                   ELSE "Forbidden: tenant not found"

\* tb's token asks for a1, which ta has and tb, a tenant with agents, has not
C30_Witness ==
    /\ ret.op = "ReverseServeHTTP"
    /\ TokenTenant(<<"tb-tok">>) = {"tb"}
    /\ HeaderFirst(ret.req.Header, "Authorization", <<"">>) = <<"bearer", "tb-tok">>
    /\ NamedAgent(ret.req) = {"a1"}
    /\ OwnedAgent("ta", "a1") # {}
    /\ OwnedAgent("tb", "b1") # {}
    /\ ret.error = "Forbidden: agent not in your fleet"


----------------------------------------------------------------------------
(* C31 *)

\* C31: the request the forward proxy sends upstream for an HTTP request has
\* no X-Agent-Token header and no Proxy-Connection header, in whatever letter
\* case the client sent them: the agent token does not reach the upstream.
C31_NoTokenUpstream ==
    ret.op = "ServeHTTP" =>
        \A out \in ret.upstream :
            \A k \in DOMAIN out.Header :
                ToLower(k) \notin {"x-agent-token", "proxy-connection"}

\* A request that has both names, in other letter cases, is sent upstream
C31_Witness ==
    /\ ret.op = "ServeHTTP"
    /\ ret.upstream # {}
    /\ {"x-agent-token", "PROXY-CONNECTION"} \subseteq DOMAIN ret.req.Header

----------------------------------------------------------------------------
(* C32 *)

----------------------------------------------------------------------------
(* C36 *)

\* Requests that differ at most in the X-Agent-Token header
SameButToken(r1, r2) ==
    /\ r1.RemoteAddr = r2.RemoteAddr
    /\ r1.Method = r2.Method
    /\ r1.Host = r2.Host
    /\ r1.URLHost = r2.URLHost
    /\ HeaderDel(r1.Header, "X-Agent-Token") = HeaderDel(r2.Header, "X-Agent-Token")

\* C36: the block decision for an admitted request is taken under the
\* effective mode of the agent id that admission resolved from the source
\* IP: a request of an agent whose effective mode is lockdown is blocked, and
\* a request that differs from it only in the X-Agent-Token header gets the
\* same decision.
C36_DecisionByResolvedAgent ==
    (ret.op = "ServeHTTP" /\ ret.admitted) =>
        /\ AgentMode(ret.agentID) = "lockdown" => ret.shouldBlock
        /\ \A r2 \in ForwardRequests :
               SameButToken(ret.req, r2) =>
                   CheckRequest(r2).shouldBlock = ret.shouldBlock

\* The agent admission resolved is in lockdown and its request is not blocked
C36_LockdownEvaded ==
    /\ ret.op = "ServeHTTP"
    /\ ret.admitted
    /\ ret.agentID = "crew-1"
    /\ AgentMode("crew-1") = "lockdown"
    /\ ~ret.shouldBlock
    /\ Has(ret.steps, "dial")

----------------------------------------------------------------------------
(* C37 *)

\* C37: the header of the request the forward proxy sends upstream is the
\* client's header without Proxy-Connection and X-Agent-Token: it has the
\* client's other names and no name more, and under a name the client sent
\* once, the client's values.
C37_ClientHeadersOnly ==
    ret.op = "ServeHTTP" =>
        \A out \in ret.upstream :
            LET client == ret.req.Header
                Sent(c) == {k \in DOMAIN client : CanonicalHeaderKey(k) = c}
            IN  /\ DOMAIN out.Header =
                       {CanonicalHeaderKey(k) : k \in DOMAIN client}
                           \ {"Proxy-Connection", "X-Agent-Token"}
                /\ \A c \in DOMAIN out.Header :
                       \A k \in Sent(c) : Cardinality(Sent(c)) = 1 => out.Header[c] = client[k]

\* The upstream is told the agent id and tier that admission resolved, which
\* the client did not send
C37_AgentIdSentUpstream ==
    /\ ret.op = "ServeHTTP"
    /\ ret.upstream # {}
    /\ ret.agentID = "crew-1"
    /\ "X-Agent-Id" \notin DOMAIN ret.req.Header
    /\ \A out \in ret.upstream :
           /\ out.Header["X-Agent-Id"] = <<"crew-1">>
           /\ out.Header["X-Agent-Tier"] = <<"crew">>


----------------------------------------------------------------------------
(* LogStore.Add called from several threads *)

MaxAppends == 5

\* The events the threads add
AddedEvents ==
    {SessionEvent(id, "", "", "", "command", "") : id \in {"one", "two"}}

\* The Add calls begun and not yet returned
InFlight == Cardinality({p \in Adders : adding[p] # Idle})

\* Add, before the lock: the event is marshalled and written to the process log
AddMarshal(p, e) ==
    /\ adding[p] = Idle
    /\ Len(appended) + InFlight < MaxAppends
    /\ adding' = [adding EXCEPT ![p] = [pc |-> "logged", event |-> e]]
    /\ UNCHANGED <<storeVars, ret, proxyVars, apiVars, chans, events, sessionStarts,
                   appended>>

\* Add, from s.mu.Lock() to s.mu.Unlock(): the mutex lets one thread at a
\* time append and cut, and no reader in between
AddLocked(p) ==
    /\ adding[p] # Idle
    /\ events' = LogStoreAdd(events, adding[p].event)
    /\ appended' = Append(appended, adding[p].event)
    /\ adding' = [adding EXCEPT ![p] = Idle]
    /\ UNCHANGED <<storeVars, ret, proxyVars, apiVars, chans, sessionStarts>>

LogStoreNext ==
    \/ \E p \in Adders, e \in AddedEvents : AddMarshal(p, e)
    \/ \E p \in Adders : AddLocked(p)

SpecLogStore == Init /\ [][LogStoreNext]_vars

----------------------------------------------------------------------------
(* C33 *)

\* C33: after any Add calls, concurrent ones included, the session LogStore
\* holds at most its limit of events, and they are the events appended last,
\* in the order they were appended: the store is the suffix of that length of
\* the sequence of all appended events.
C33_SuffixOfAppended ==
    /\ Len(events) <= LogLimit
    /\ Len(events) = IF Len(appended) < LogLimit THEN Len(appended) ELSE LogLimit
    /\ events = SubSeq(appended, Len(appended) - Len(events) + 1, Len(appended))

\* More events than the limit have been appended, the first is cut off, and
\* another thread is in Add
C33_Witness ==
    /\ Len(appended) > LogLimit
    /\ Len(events) = LogLimit
    /\ events[1] # appended[1]
    /\ \E p \in Adders : adding[p] # Idle


----------------------------------------------------------------------------
(* api.Handlers: the management API over its in-memory Store *)

(* An agent id is the sequence of the path segments it is made of, <<"">>    *)
(* the empty string; a command and a rule pattern are sequences of           *)
(* characters.                                                               *)

MaxStoredLogs == 10000
MaxChecks == 1

\* extractAgentID: strings.TrimPrefix(path, "/agents/"), then
\* strings.TrimSuffix(path, "/" + suffix)
extractAgentID(path, suffix) ==
    LET TrimPrefix(x) == IF Len(x) >= 3 /\ x[1] = "" /\ x[2] = "agents"
                         THEN SubSeq(x, 3, Len(x)) ELSE x
        TrimSuffix(x) == IF Len(x) >= 2 /\ x[Len(x)] = suffix
                         THEN SubSeq(x, 1, Len(x) - 1) ELSE x
    IN  TrimSuffix(TrimPrefix(path))

\* matchPattern: strings.Contains(command, pattern)
matchPattern(command, pattern) ==
    \E i \in 0..(Len(command) - Len(pattern)) :
        SubSeq(command, i + 1, i + Len(pattern)) = pattern

\* writeError
ApiError(op, status, message) ==
    [op |-> op, status |-> status, error |-> message]

\* Handlers.RegisterAgent: a new Agent under the id, active
RegisterAgent(id, name, ip) ==
    /\ apiAgents' = MapSet(apiAgents, id,
                           [ID |-> id, Name |-> name, IP |-> ip, Status |-> "active",
                            LastSeen |-> now, CreatedAt |-> now])
    /\ everKilled' = everKilled \ {id}
    /\ ret' = NoCall
    /\ UNCHANGED <<now, apiRules, apiLogs, requestsTotal, blockedTotal, apiFrame>>

\* What PauseAgentHandler, KillAgentHandler and ResumeAgentHandler have in
\* common: the method, the id in the path, the agent in the store
AgentRequestError(op, method, agentID) ==
    IF method # "POST" THEN {ApiError(op, 405, "method not allowed")}
    ELSE IF agentID = <<"">> THEN {ApiError(op, 400, "missing agent ID")}
    ELSE IF agentID \notin DOMAIN apiAgents THEN {ApiError(op, 404, "agent not found")}
    ELSE {}

\* writeJSON(w, http.StatusOK, AgentActionResponse{...})
AgentActionResponse(op, agentID, status) ==
    [op |-> op, status |-> 200, error |-> "", agent |-> agentID, result |-> status]

\* PauseAgentHandler: POST /agents/{id}/pause
PauseAgentHandler(method, path) ==
    LET agentID == extractAgentID(path, "pause")
        err == AgentRequestError("PauseAgent", method, agentID)
    IN  /\ IF err # {}
           THEN /\ ret' = CHOOSE e \in err : TRUE
                /\ UNCHANGED apiAgents
           ELSE /\ apiAgents' = [apiAgents EXCEPT ![agentID].Status = "paused"]
                /\ ret' = AgentActionResponse("PauseAgent", agentID, "paused")
        /\ UNCHANGED <<now, apiRules, apiLogs, requestsTotal, blockedTotal, everKilled,
                       apiFrame>>

\* KillAgentHandler: POST /agents/{id}/kill
KillAgentHandler(method, path) ==
    LET agentID == extractAgentID(path, "kill")
        err == AgentRequestError("KillAgent", method, agentID)
    IN  /\ IF err # {}
           THEN /\ ret' = CHOOSE e \in err : TRUE
                /\ UNCHANGED <<apiAgents, everKilled>>
           ELSE /\ apiAgents' = [apiAgents EXCEPT ![agentID].Status = "killed"]
                /\ everKilled' = everKilled \cup {agentID}
                /\ ret' = AgentActionResponse("KillAgent", agentID, "killed")
        /\ UNCHANGED <<now, apiRules, apiLogs, requestsTotal, blockedTotal, apiFrame>>

\* ResumeAgentHandler: POST /agents/{id}/resume
ResumeAgentHandler(method, path) ==
    LET agentID == extractAgentID(path, "resume")
        err == AgentRequestError("ResumeAgent", method, agentID)
    IN  /\ IF err # {}
           THEN /\ ret' = CHOOSE e \in err : TRUE
                /\ UNCHANGED apiAgents
           ELSE IF apiAgents[agentID].Status = "killed"
           THEN /\ ret' = ApiError("ResumeAgent", 409,
                                   "cannot resume killed agent - use agent restore instead")
                /\ UNCHANGED apiAgents
           ELSE /\ apiAgents' = [apiAgents EXCEPT ![agentID].Status = "active"]
                /\ ret' = AgentActionResponse("ResumeAgent", agentID, "active")
        /\ UNCHANGED <<now, apiRules, apiLogs, requestsTotal, blockedTotal, everKilled,
                       apiFrame>>

\* generateID: the clock's nanoseconds in base 36
generateID == now

\* CreateRuleHandler: POST /rules
CreateRuleHandler(method, bodyOK, req) ==
    /\ IF method # "POST"
       THEN /\ ret' = ApiError("CreateRule", 405, "method not allowed")
            /\ UNCHANGED apiRules
       ELSE IF ~bodyOK
       THEN /\ ret' = ApiError("CreateRule", 400, "invalid request body")
            /\ UNCHANGED apiRules
       ELSE IF req.Action # "block" /\ req.Action # "allow"
       THEN /\ ret' = ApiError("CreateRule", 400, "action must be 'block' or 'allow'")
            /\ UNCHANGED apiRules
       ELSE IF req.Pattern = <<>> /\ req.Domain = <<>>
       THEN /\ ret' = ApiError("CreateRule", 400, "pattern or domain is required")
            /\ UNCHANGED apiRules
       ELSE /\ apiRules' = MapSet(apiRules, generateID,
                                  [ID |-> generateID, Pattern |-> req.Pattern,
                                   Domain |-> req.Domain, Action |-> req.Action,
                                   Description |-> req.Description,
                                   Enabled |-> req.Enabled, CreatedAt |-> now])
            /\ ret' = [op |-> "CreateRule", status |-> 201, error |-> "",
                       rule |-> generateID]
    /\ UNCHANGED <<now, apiAgents, apiLogs, requestsTotal, blockedTotal, everKilled,
                   apiFrame>>

\* DeleteRuleHandler: DELETE /rules/{id}; noID when the path names none
DeleteRuleHandler(method, noID, ruleID) ==
    /\ IF method # "DELETE"
       THEN /\ ret' = ApiError("DeleteRule", 405, "method not allowed")
            /\ UNCHANGED apiRules
       ELSE IF noID
       THEN /\ ret' = ApiError("DeleteRule", 400, "missing rule ID")
            /\ UNCHANGED apiRules
       ELSE IF ruleID \notin DOMAIN apiRules
       THEN /\ ret' = ApiError("DeleteRule", 404, "rule not found")
            /\ UNCHANGED apiRules
       ELSE /\ apiRules' = MapDelete(apiRules, ruleID)
            /\ ret' = [op |-> "DeleteRule", status |-> 200, error |-> "", rule |-> ruleID]
    /\ UNCHANGED <<now, apiAgents, apiLogs, requestsTotal, blockedTotal, everKilled,
                   apiFrame>>

\* addLog: append the entry, keep the last 10000
addLog(agentID, logType, request, action, ruleID) ==
    LET entry == [ID |-> generateID, Timestamp |-> now, AgentID |-> agentID,
                  Type |-> logType, Request |-> request, Action |-> action,
                  RuleID |-> ruleID]
        all == Append(apiLogs, entry)
    IN  IF Len(all) > MaxStoredLogs
        THEN SubSeq(all, Len(all) - MaxStoredLogs + 1, Len(all))
        ELSE all

\* An exec check that stops a paused agent only
StatusBlocks_PausedOnly(agent) == agent.Status = "paused"

\* ExecCheckHandler's test of the agent's status
StatusBlocks(agent) == agent.Status = "paused" \/ agent.Status = "killed"

\* The rules ExecCheckHandler's loop can stop at: enabled, with a pattern the
\* command contains, of action block.  The loop ranges over a map, so it
\* stops at any of them.
BlockingRules(command) ==
    {id \in DOMAIN apiRules :
        /\ apiRules[id].Enabled
        /\ apiRules[id].Pattern # <<>>
        /\ matchPattern(command, apiRules[id].Pattern)
        /\ apiRules[id].Action = "block"}

\* writeJSON(w, http.StatusOK, ExecCheckResponse{...})
ExecCheckResponse(req, allowed, reason, ruleID) ==
    [op |-> "ExecCheck", status |-> 200, error |-> "", req |-> req,
     allowed |-> {allowed}, reason |-> reason, ruleID |-> ruleID]

\* ExecCheckHandler: POST /exec/check
ExecCheckHandler(req) ==
    LET known == req.AgentID \in DOMAIN apiAgents
        stopped == IF known THEN StatusBlocks(apiAgents[req.AgentID]) ELSE FALSE
        Refused(status, message) ==
            /\ ret' = [op |-> "ExecCheck", status |-> status, error |-> message,
                       req |-> req, allowed |-> {}, reason |-> <<>>, ruleID |-> {}]
            /\ UNCHANGED <<apiAgents, apiLogs, requestsTotal, blockedTotal>>
        Seen == IF known
                THEN [apiAgents EXCEPT ![req.AgentID].LastSeen = now]
                ELSE apiAgents
    IN  /\ IF req.Method # "POST" THEN Refused(405, "method not allowed")
           ELSE IF ~req.BodyOK THEN Refused(400, "invalid request body")
           ELSE IF req.Command = <<>> THEN Refused(400, "command is required")
           ELSE /\ requestsTotal' = requestsTotal + 1
                /\ IF stopped
                   THEN /\ blockedTotal' = blockedTotal + 1
                        /\ apiLogs' = addLog(req.AgentID, "command", req.Command,
                                             "blocked", <<"agent-status">>)
                        /\ ret' = ExecCheckResponse(req, FALSE,
                                      <<"agent is", apiAgents[req.AgentID].Status>>, {})
                        /\ UNCHANGED apiAgents
                   ELSE IF BlockingRules(req.Command) # {}
                   THEN \E id \in BlockingRules(req.Command) :
                        /\ blockedTotal' = blockedTotal + 1
                        /\ apiLogs' = addLog(req.AgentID, "command", req.Command,
                                             "blocked", <<id>>)
                        /\ ret' = ExecCheckResponse(req, FALSE,
                                      <<apiRules[id].Description>>, {id})
                        /\ apiAgents' = Seen
                   ELSE /\ apiLogs' = addLog(req.AgentID, "command", req.Command,
                                             "allowed", <<>>)
                        /\ ret' = ExecCheckResponse(req, TRUE, <<>>, {})
                        /\ apiAgents' = Seen
                        /\ UNCHANGED blockedTotal
        /\ UNCHANGED <<now, apiRules, everKilled, apiFrame>>

\* The agents registered, the paths, the rules and the checks of the runs
ApiAgentIDs == {<<"a1">>}
\* <<method, path>> of the requests for one of pause, kill and resume
AgentCalls(action) ==
    {<<"POST", <<"", "agents", "a1", action>> >>,
     <<"GET", <<"", "agents", "a1", action>> >>,
     <<"POST", <<"", "agents", "zz", action>> >>,
     <<"POST", <<"", "agents", "", action>> >>}
CmdLs == <<"l", "s">>
CmdRm == <<"r", "m", " ", "x">>
RuleRequests ==
    {[Pattern |-> <<"r", "m">>, Domain |-> <<>>, Action |-> "block",
      Description |-> "Dangerous command", Enabled |-> TRUE],
     [Pattern |-> <<"l", "s">>, Domain |-> <<>>, Action |-> "allow",
      Description |-> "Listing", Enabled |-> TRUE],
     [Pattern |-> <<>>, Domain |-> <<>>, Action |-> "block",
      Description |-> "", Enabled |-> TRUE]}
ExecChecks ==
    {[Method |-> "POST", BodyOK |-> TRUE, Command |-> c, AgentID |-> <<"a1">>] :
        c \in {CmdLs, CmdRm, <<>>}} \cup
    {[Method |-> "POST", BodyOK |-> TRUE, Command |-> CmdRm, AgentID |-> <<"zz">>],
     [Method |-> "GET", BodyOK |-> TRUE, Command |-> CmdLs, AgentID |-> <<"a1">>],
     [Method |-> "POST", BodyOK |-> FALSE, Command |-> <<>>, AgentID |-> <<"">>]}

\* Two rules created at earlier instants: a block rule that is disabled and an
\* allow rule
EarlierRules ==
    (-2 :> [ID |-> -2, Pattern |-> <<"l", "s">>, Domain |-> <<>>, Action |-> "block",
            Description |-> "No listing", Enabled |-> FALSE, CreatedAt |-> -2]) @@
    (-1 :> [ID |-> -1, Pattern |-> <<"r", "m">>, Domain |-> <<>>, Action |-> "allow",
            Description |-> "Removal", Enabled |-> TRUE, CreatedAt |-> -1])

\* The store as NewStore leaves it, or with the two earlier rules; the calls
\* of a run are made within one reading of the clock
ApiStart ==
    /\ StoreInit
    /\ ret = NoCall
    /\ BastionInit
    /\ FleetInit
    /\ ReverseInit
    /\ EngineInit
    /\ ModeInit
    /\ tunnels = <<>>
    /\ registryAttached = TRUE
    /\ apiAgents = <<>>
    /\ apiRules \in {<<>>, EarlierRules}
    /\ apiLogs = <<>>
    /\ requestsTotal = 0
    /\ blockedTotal = 0
    /\ everKilled = {}

ApiNext ==
    \/ \E id \in ApiAgentIDs : RegisterAgent(id, "Test Agent", "192.168.1.1")
    \/ \E c \in AgentCalls("pause") : PauseAgentHandler(c[1], c[2])
    \/ \E c \in AgentCalls("kill") : KillAgentHandler(c[1], c[2])
    \/ \E c \in AgentCalls("resume") : ResumeAgentHandler(c[1], c[2])
    \/ \E q \in RuleRequests : CreateRuleHandler("POST", TRUE, q)
    \/ \E id \in {-1, 0} : DeleteRuleHandler("DELETE", FALSE, id)
    \/ \E q \in ExecChecks : requestsTotal < MaxChecks /\ ExecCheckHandler(q)

SpecApi == ApiStart /\ [][ApiNext]_vars

----------------------------------------------------------------------------
(* C34 *)

\* C34: a killed agent is not resumed.  Once an agent has been killed, no
\* pause, resume or kill request makes its status active again (a resume of
\* it is answered 409 and leaves it killed).
C34_KilledStaysInactive ==
    \A id \in everKilled : apiAgents[id].Status # "active"

\* A resume is answered 200 for an agent that was killed and not registered anew
C34_KilledAgentResumed ==
    /\ ret.op = "ResumeAgent"
    /\ ret.status = 200
    /\ ret.agent \in everKilled
    /\ apiAgents[ret.agent].Status = "active"

----------------------------------------------------------------------------
(* C35 *)

\* The answer the claim asks for: allowed=false, the reason naming the status
RefusedForStatus(status) ==
    /\ ret.status = 200
    /\ ret.allowed = {FALSE}
    /\ ret.reason = <<"agent is", status>>

----------------------------------------------------------------------------
(* GrantStore: a store opened again from its grants file *)

MaxAdds == 2

\* NewGrantStoreWithClock(filePath, now) on the file an earlier store wrote:
\* an empty map filled by load, and a counter of zero
Reopen ==
    /\ grants' = load(persisted)
    /\ counter' = 0
    /\ ret' = NoCall
    /\ UNCHANGED <<now, added, deleted, persisted, addCount, storeFrame>>

ReopenNext ==
    \/ \E r \in GrantRequests, d \in Durations : addCount < MaxAdds /\ Add(r[1], r[2], "admin", d)
    \/ \E id \in KnownIDs : Delete(id)
    \/ Cleanup
    \/ now < MaxTime /\ Tick
    \/ Reopen

SpecReopen == Init /\ [][ReopenNext]_vars

\* C38: grant ids are unique. Every Add returns an id that is not present in
\* the store when it is called, so it creates a new entry and leaves every
\* grant of the store as it was, after any Adds, Deletes, Cleanups and
\* re-openings of the store from its file, at any clock values.
C38_AddReturnsNewID ==
    [][(ret'.op = "Add" /\ addCount' = addCount + 1) =>
          /\ ret'.grant.ID \notin DOMAIN grants
          /\ \A id \in DOMAIN grants : id \in DOMAIN grants' /\ grants'[id] = grants[id]]_vars

\* Two Adds have returned one id, with no Delete and at an instant when no
\* grant has expired: the second Add, made after the store was opened again,
\* took the place of the first one's grant, which was another principal's.
C38_IdReturnedTwice ==
    /\ ret.op = "Add"
    /\ addCount = 2
    /\ counter = 1
    /\ Cardinality(DOMAIN added) = 1
    /\ Cardinality(DOMAIN grants) = 1
    /\ deleted = {}
    /\ now = 0
    /\ ret.grant.Principal = "bob"

----------------------------------------------------------------------------
(* rules.Engine: a Reload and a LoadRules in two threads *)

\* The two threads that load
ReloadThreads == {"l1", "l2"}

\* An engine whose two rules files both hold rules that compile
ReloadInit ==
    /\ StoreInit
    /\ ret = NoCall
    /\ BastionInit
    /\ FleetInit
    /\ ReverseInit
    /\ ApiInit
    /\ rules = <<>>
    /\ compiled = <<>>
    /\ defaultAction = "allow"
    /\ rulesPath = ""
    /\ files = ("a.yaml" :> {{RulesB}}) @@ ("b.yaml" :> {{RulesD}})
    /\ mu = [writer |-> FALSE, readers |-> {}]
    /\ loading = [l \in ReloadThreads |-> Idle]
    /\ evals = [p \in Evaluators |-> Idle]
    /\ ModeInit
    /\ registryAttached = TRUE
    /\ tunnels = <<>>

ReloadNext ==
    \/ \E l \in ReloadThreads : \E path \in Paths : LoadRulesStart(l, path)
    \/ \E l \in ReloadThreads : ReloadStart(l)
    \/ \E l \in ReloadThreads : LoadCompile(l)
    \/ \E l \in ReloadThreads : LoadLock(l)
    \/ \E l \in ReloadThreads : LoadSetRules(l)
    \/ \E l \in ReloadThreads : LoadSetCompiled(l)
    \/ \E l \in ReloadThreads : LoadUnlock(l)

SpecReload == ReloadInit /\ [][ReloadNext]_vars

\* C39: Reload is linearizable with LoadRules. A Reload that holds the
\* engine's lock installs the rules of the path the engine records at that
\* moment, never those of a path that a LoadRules which has returned has
\* replaced; so after a Reload and a concurrent LoadRules(p2) have both
\* returned without error the engine holds p2's rules and p2 as its path.
C39_ReloadInstallsRecordedPath ==
    \A l \in ReloadThreads :
        (loading[l].pc \in {"locked", "rules", "matchers"} /\ loading[l].op = "Reload")
            => loading[l].path = rulesPath

\* A Reload that read a.yaml as the path holds the lock and has put a.yaml's
\* rules into the engine, whose recorded path is b.yaml: LoadRules("b.yaml")
\* has returned since the Reload read the path, and the other thread is idle.
C39_ReplacedPathInstalled ==
    /\ loading["l1"].pc = "matchers"
    /\ loading["l1"].op = "Reload"
    /\ loading["l1"].path = "a.yaml"
    /\ rulesPath = "b.yaml"
    /\ rules = loading["l1"].rs
    /\ rules # Loaded(ReadFile("b.yaml")).rs
    /\ loading["l2"] = Idle

----------------------------------------------------------------------------
(* fleet.Manager: GetAgentsForAgent returns *)

\* C40: GetAgentsForAgent(a) returns normally, without a panic, in every
\* state of the registry that CreateTenant, SetMode, AddAgent and RemoveAgent
\* lead to, also after CreateTenant is called again for a tenant id that has
\* agents.
C40_ReturnsNormally ==
    ret.op = "GetAgentsForAgent" => ~ret.result.panic

\* GetAgentsForAgent has panicked for an agent whose index entry names a
\* tenant in fleet mode that was created again and has no agent
C40_PanicAfterRecreation ==
    /\ ret.op = "GetAgentsForAgent"
    /\ ret.result.panic
    /\ ret.agent \in DOMAIN agentToTenant
    /\ agentToTenant[ret.agent] \in DOMAIN tenants
    /\ tenants[agentToTenant[ret.agent]].Mode = "fleet"
    /\ DOMAIN tenants[agentToTenant[ret.agent]].Agents = {}

====
